---- MODULE Spec2Model ----
(***************************************************************************)
(* A model of the njalla libdns provider: the retrying JSON-RPC client     *)
(* (client.go) and the record reconciliation of the Provider (provider.go, *)
(* types.go).                                                              *)
(*                                                                         *)
(* Strings that the code takes apart (zone, names, identity tokens, map    *)
(* keys) are sequences of tokens, so that TrimSuffix, Contains and         *)
(* Sprintf("%s|%s") are computed as the code computes them.  Errors are    *)
(* tuples <<kind, detail...>>; the nil error is <<>>.                      *)
(***************************************************************************)
EXTENDS Integers, Sequences, FiniteSets, TLC

VARIABLES
    \* ---- client.call (client.go:101-201) ----
    cfg,        \* c.retryConfig, read-only during the call
    marshalOK,  \* whether json.Marshal(req) succeeds for the caller's params
    resultNil,  \* whether the caller passed result == nil
    pc,         \* position of the call: "marshal","loop","select","wait","send","done"
    attempt,    \* the loop variable
    lastErr,    \* the local lastErr
    statusCode, \* the local statusCode
    backoff,    \* the duration the current timer was armed with
    timerFired, \* the timer's channel holds a value
    woken,      \* the select case that woke the blocked call: "none","timer","ctx"
    ctxErr,     \* ctx.Err(): "" while ctx.Done() is open, else "canceled" or "deadline"
    sent,       \* number of httpClient.Do invocations of this call
    hist,       \* the outcome of every attempt, in order
    cancelAt,   \* -1, or the value of sent when ctx was cancelled under a blocked select
    ret,        \* the returned error (<<>> is nil); meaningful when pc = "done"
    \* ---- calculateBackoff (client.go:85-99) as a pure function ----
    bk,         \* the inputs of one pair of evaluations and their results
    \* ---- libdnsRecordToNjalla and njallaRecordToLibdns (types.go) ----
    cvt,        \* the input of one conversion and what it has produced
    \* ---- the client struct and a second call on it (client.go:40-52) ----
    cl,         \* c.token and c.timeout
    other,      \* the locals of the call that is not running now
    \* ---- goroutines inside Provider.getClient (provider.go:38-47) ----
    gor,        \* [pc, got, mu, built]: each goroutine's position and result,
                \* the holder of the Once's mutex, the clients constructed
    \* ---- Provider (provider.go) ----
    apiToken,   \* p.APIToken
    clientOnce, \* p.clientOnce has run
    client,     \* p.client: "nil" or "client"
    zoneArg,    \* the zone argument of the operation
    records,    \* the records argument of the operation
    pctx,       \* the operation's ctx: [hasDeadline, deadline, err]; err as ctx.Err()
    zone,       \* the local zone after normalisation
    ppc,        \* position of the operation
    recordsByKey,         \* SetRecords: map id -> record
    recordsWithoutIDs,    \* SetRecords: slice of records without ID
    existingRecordsByKey, \* SetRecords: map "name|type" -> listed record
    setRecords, \* SetRecords: the accumulated result slice
    iter,       \* keys of the map being ranged over that are still to visit
    idx,        \* index of the next element of the slice being ranged over
    listing,    \* what the remote answers to list-records during this operation
    calls,      \* every client.call issued by the operation: [method, req, rec]
    out,        \* the operation's return: [done, isNil, records, err]
    op,         \* the operation in progress: "Get", "Append", "Set" or "Delete"
    appendedRecords, \* AppendRecords: the accumulated result slice
    recordMap,       \* DeleteRecords: map id or "name|type" -> input record
    deletedRecords,  \* DeleteRecords: the accumulated result slice
    now              \* time.Now(), in whole seconds

callVars == <<cfg, marshalOK, resultNil, pc, attempt, lastErr, statusCode,
              backoff, timerFired, woken, ctxErr, sent, hist, cancelAt, ret>>
provVars == <<apiToken, clientOnce, client, zoneArg, records, pctx, zone, ppc,
              recordsByKey, recordsWithoutIDs, existingRecordsByKey, setRecords,
              iter, idx, listing, calls, out, op, appendedRecords, recordMap,
              deletedRecords, now>>
appendVars == <<appendedRecords>>
deleteVars == <<recordMap, deletedRecords>>
sharedVars == <<cl, other, gor>>
vars == <<callVars, bk, cvt, sharedVars, provVars>>

----------------------------------------------------------------------------
(* Bounds of the model *)

MaxRetriesBound == 3
MaxAttemptIndex == 4
RandDen == 4
FactorDen == 2
MaxBatch == 2
TicksPerSecond == 2
MaxClock == 30
ClockStep == 7
MaxTTLTicks == 5
NumGoroutines == 3

----------------------------------------------------------------------------
(* RetryConfig and calculateBackoff *)

RECURSIVE Pow2(_)
Pow2(n) == IF n <= 0 THEN 1 ELSE 2 * Pow2(n - 1)

\* RandomFactor is the rational RandomFactor / FactorDen; a draw of
\* rand.Float64() is the rational k / RandDen with k in 0..RandDen-1.
RandDraws == 0 .. (RandDen - 1)

DefaultRetryConfig ==
    [MaxRetries |-> 3, BaseDelay |-> 100, MaxDelay |-> 2000, RandomFactor |-> FactorDen \div 2]

\* delay = BaseDelay * 2^attempt; delay += rnd * RandomFactor * delay;
\* if delay > MaxDelay then delay = MaxDelay; return Duration(delay)
\* (the conversion truncates toward zero).
calculateBackoffNoCap(config, n, rnd) ==
    LET den   == RandDen * FactorDen
        num   == config.BaseDelay * Pow2(n) * (den + rnd * config.RandomFactor)
    IN  IF num >= 0 THEN num \div den ELSE -((-num) \div den)

calculateBackoff(config, n, rnd) ==
    LET den   == RandDen * FactorDen
        num   == config.BaseDelay * Pow2(n) * (den + rnd * config.RandomFactor)
    IN  IF num > config.MaxDelay * den
        THEN config.MaxDelay
        ELSE IF num >= 0 THEN num \div den ELSE -((-num) \div den)

----------------------------------------------------------------------------
(* isRetryable *)

NoError == <<>>

isRetryableAnyError(err, status) ==
    IF err # NoError THEN TRUE ELSE status >= 400

isRetryable(err, status) ==
    IF err # NoError THEN TRUE ELSE status >= 500 \/ status = 429

----------------------------------------------------------------------------
(* client.call *)

\* What one httpClient.Do + io.ReadAll can produce: <<"doerr">>, a response
\* whose body cannot be read <<"readerr", status>>, or a response
\* <<"resp", status, body>>.  The body of a response is read by the code only
\* when status < 400: it is not JSON, an envelope with an error object, an
\* envelope whose result decodes into the caller's result, or an envelope
\* whose result does not.
ErrorStatuses == {400, 404, 429, 500, 503}
ApiErrors == {<<404, "not found">>}
Bodies == {<<"badjson">>, <<"ok">>, <<"badresult">>}
              \cup {<<"apierr", e[1], e[2]>> : e \in ApiErrors}
Outcomes == {<<"doerr">>, <<"readerr", 200>>}
              \cup {<<"resp", s, <<"unread">>>> : s \in ErrorStatuses}
              \cup {<<"resp", 200, b>> : b \in Bodies}

RetryConfigs ==
    [MaxRetries : -1 .. MaxRetriesBound, BaseDelay : {1}, MaxDelay : {3},
     RandomFactor : {FactorDen \div 2}]

Return(err) ==
    /\ ret' = err
    /\ pc' = "done"

MarshalIgnoreError ==
    /\ pc = "marshal"
    /\ pc' = "loop"
    /\ UNCHANGED <<cfg, marshalOK, resultNil, attempt, lastErr, statusCode,
                   backoff, timerFired, woken, ctxErr, sent, hist, cancelAt, ret>>
    /\ UNCHANGED <<bk, cvt, sharedVars, provVars>>

\* client.go:102-112
Marshal ==
    /\ pc = "marshal"
    /\ IF marshalOK
       THEN pc' = "loop" /\ ret' = ret
       ELSE Return(<<"marshal">>)
    /\ UNCHANGED <<cfg, marshalOK, resultNil, attempt, lastErr, statusCode,
                   backoff, timerFired, woken, ctxErr, sent, hist, cancelAt>>
    /\ UNCHANGED <<bk, cvt, sharedVars, provVars>>

\* client.go:118-125 and 199-200: the loop condition, and on a retry the
\* backoff computation and time.NewTimer(backoff).
LoopCondOneMore(a) == a <= cfg.MaxRetries + 1

LoopCondOneLess(a) == a < cfg.MaxRetries

LoopCond(a) == a <= cfg.MaxRetries

LoopHead ==
    /\ pc = "loop"
    /\ IF LoopCond(attempt)
       THEN IF attempt > 0
            THEN /\ \E rnd \in RandDraws :
                       backoff' = calculateBackoff(cfg, attempt - 1, rnd)
                 /\ timerFired' = FALSE
                 /\ woken' = "none"
                 /\ pc' = "select"
                 /\ ret' = ret
            ELSE /\ pc' = "send"
                 /\ UNCHANGED <<backoff, timerFired, woken, ret>>
       ELSE /\ Return(<<"maxRetries", lastErr>>)
            /\ UNCHANGED <<backoff, timerFired, woken>>
    /\ UNCHANGED <<cfg, marshalOK, resultNil, attempt, lastErr, statusCode,
                   ctxErr, sent, hist, cancelAt>>
    /\ UNCHANGED <<bk, cvt, sharedVars, provVars>>

\* The runtime delivers the timer: its channel becomes ready, and a call
\* blocked in the select with nothing delivered yet is woken by it.
TimerFire ==
    /\ pc \in {"select", "wait"}
    /\ ~timerFired
    /\ timerFired' = TRUE
    /\ woken' = IF pc = "wait" /\ woken = "none" THEN "timer" ELSE woken
    /\ UNCHANGED <<cfg, marshalOK, resultNil, pc, attempt, lastErr, statusCode,
                   backoff, ctxErr, sent, hist, cancelAt, ret>>
    /\ UNCHANGED <<bk, cvt, sharedVars, provVars>>

\* The caller cancels ctx or its deadline passes: ctx.Done() is closed, and a
\* call blocked in the select with nothing delivered yet is woken by it.
CtxCancel ==
    /\ pc \notin {"idle", "done"}
    /\ ctxErr = ""
    /\ ctxErr' \in {"canceled", "deadline"}
    /\ IF pc = "wait" /\ woken = "none"
       THEN woken' = "ctx" /\ cancelAt' = sent
       ELSE UNCHANGED <<woken, cancelAt>>
    /\ UNCHANGED <<cfg, marshalOK, resultNil, pc, attempt, lastErr, statusCode,
                   backoff, timerFired, sent, hist, ret>>
    /\ UNCHANGED <<bk, cvt, sharedVars, provVars>>

SelectCaseIgnoreCtx(c) ==
    pc' = "send" /\ ret' = ret

\* A select that waits again once the timer has fired.
SelectCaseRearm(c) ==
    IF c = "ctx"
    THEN Return(<<"ctxBackoff", ctxErr>>)
    ELSE pc' = "select" /\ ret' = ret

\* client.go:126-132, one case of the select taken.
SelectCase(c) ==
    IF c = "ctx"
    THEN Return(<<"ctxBackoff", ctxErr>>)
    ELSE pc' = "send" /\ ret' = ret

\* The select is entered: a ready case is taken (any one of them when both
\* are ready), otherwise the call blocks.
ReadyCases == (IF ctxErr # "" THEN {"ctx"} ELSE {}) \cup
              (IF timerFired THEN {"timer"} ELSE {})

SelectEnter ==
    /\ pc = "select"
    /\ IF ReadyCases = {}
       THEN pc' = "wait" /\ ret' = ret
       ELSE \E c \in ReadyCases : SelectCase(c)
    /\ UNCHANGED <<cfg, marshalOK, resultNil, attempt, lastErr, statusCode,
                   backoff, timerFired, woken, ctxErr, sent, hist, cancelAt>>
    /\ UNCHANGED <<bk, cvt, sharedVars, provVars>>

\* The blocked call resumes with the case that woke it.
SelectWake ==
    /\ pc = "wait"
    /\ woken # "none"
    /\ SelectCase(woken)
    /\ UNCHANGED <<cfg, marshalOK, resultNil, attempt, lastErr, statusCode,
                   backoff, timerFired, woken, ctxErr, sent, hist, cancelAt>>
    /\ UNCHANGED <<bk, cvt, sharedVars, provVars>>

\* client.go:135-196: one delivery attempt and the handling of its outcome.
\* `continue` after recording the failure in lastErr.
ContinueKeepFirst(err) ==
    /\ lastErr' = IF lastErr = NoError THEN err ELSE lastErr
    /\ attempt' = attempt + 1
    /\ pc' = "loop"
    /\ ret' = ret

Continue(err) ==
    /\ lastErr' = err
    /\ attempt' = attempt + 1
    /\ pc' = "loop"
    /\ ret' = ret

\* client.go:168-174
OnHTTPError(s) ==
    IF isRetryable(NoError, s)
    THEN Continue(<<"http", s>>)
    ELSE /\ lastErr' = <<"http", s>>
         /\ Return(<<"http", s>>)
         /\ attempt' = attempt

\* client.go:183-187
OnAPIErrorRetry(code, msg) ==
    Continue(<<"api", code, msg>>)

OnAPIError(code, msg) ==
    /\ lastErr' = <<"api", code, msg>>
    /\ Return(<<"api", code, msg>>)
    /\ attempt' = attempt

\* client.go:189-196
OnResult(decodes) ==
    /\ IF ~resultNil /\ ~decodes
       THEN Return(<<"unmarshalResult">>)
       ELSE Return(NoError)
    /\ UNCHANGED <<lastErr, attempt>>

Handle(o) ==
    IF o[1] = "doerr"
    THEN Continue(<<"request">>) /\ statusCode' = statusCode
    ELSE /\ statusCode' = o[2]
         /\ IF o[1] = "readerr"
            THEN Continue(<<"read">>)
            ELSE IF o[2] >= 400
            THEN OnHTTPError(o[2])
            ELSE IF o[3][1] = "badjson"
            THEN Continue(<<"unmarshalResponse">>)
            ELSE IF o[3][1] = "apierr"
            THEN OnAPIError(o[3][2], o[3][3])
            ELSE OnResult(o[3][1] = "ok")

\* A request whose context is already done fails in httpClient.Do.
Attempt ==
    /\ pc = "send"
    /\ \E o \in Outcomes :
          /\ ctxErr # "" => o = <<"doerr">>
          /\ sent' = sent + 1
          /\ hist' = Append(hist, o)
          /\ Handle(o)
    /\ UNCHANGED <<cfg, marshalOK, resultNil, backoff, timerFired, woken,
                   ctxErr, cancelAt>>
    /\ UNCHANGED <<bk, cvt, sharedVars, provVars>>

CallNext ==
    \/ Marshal
    \/ LoopHead
    \/ TimerFire
    \/ CtxCancel
    \/ SelectEnter
    \/ SelectWake
    \/ Attempt

----------------------------------------------------------------------------
(* calculateBackoff applied to one policy at two successive attempt indices *)

BackoffConfigs ==
    [MaxRetries : {MaxAttemptIndex + 1}, BaseDelay : {0, 1, 3, 100},
     MaxDelay : {0, 1, 7, 2000}, RandomFactor : 0 .. (2 * FactorDen)]

\* One evaluation at n and one at n+1, each with its own jitter draw.
BkEvaluate ==
    /\ bk.stage = "input"
    /\ bk' = [stage |-> "done", config |-> bk.config, n |-> bk.n,
              rnd1 |-> bk.rnd1, rnd2 |-> bk.rnd2,
              d1 |-> calculateBackoff(bk.config, bk.n, bk.rnd1),
              d2 |-> calculateBackoff(bk.config, bk.n + 1, bk.rnd2)]
    /\ UNCHANGED <<callVars, cvt, sharedVars, provVars>>

----------------------------------------------------------------------------
(* Strings the Provider takes apart: sequences of tokens *)

Dot == "."
Bar == "|"
EmptyStr == <<>>

HasSuffix(s, suf) ==
    Len(s) >= Len(suf) /\ SubSeq(s, Len(s) - Len(suf) + 1, Len(s)) = suf

\* strings.TrimSuffix
TrimSuffix(s, suf) ==
    IF HasSuffix(s, suf) THEN SubSeq(s, 1, Len(s) - Len(suf)) ELSE s

\* strings.Contains(s, tok) for a one-token tok
Contains(s, tok) == \E i \in 1 .. Len(s) : s[i] = tok

\* fmt.Sprintf("%s|%s", name, type)
KeyOf(name, type) == name \o <<Bar>> \o <<type>>

\* A RelativeName that returns the name as it was given.
RelativeNameAsGiven(fqdn, z) == fqdn

\* libdns.RelativeName(fqdn, zone): trailing dots are ignored on both, the
\* zone suffix and the dot before it are removed, and the zone apex is "@".
RelativeName(fqdn, z) ==
    LET rel == TrimSuffix(TrimSuffix(TrimSuffix(fqdn, <<Dot>>), TrimSuffix(z, <<Dot>>)),
                          <<Dot>>)
    IN  IF rel = EmptyStr THEN <<"@">> ELSE rel

----------------------------------------------------------------------------
(* libdns records and njalla records *)

\* netip.ParseAddr: the textual addresses that parse, with the canonical
\* text (Addr.String) of each.
CanonicalIP(text) ==
    IF text = <<"2001:DB8::1">> THEN <<"2001:db8::1">> ELSE text

ValidIPs == {<<"192.0.2.1">>, <<"192.0.2.2">>, <<"2001:db8::1">>, <<"2001:DB8::1">>}

Is6(ip) == ip = <<"2001:db8::1">>

\* ProviderData: a map[string]string (id is pd["id"], "" when the key is
\* absent), nil, or a value of another type.
NoPD == [shape |-> "nil", id |-> EmptyStr]
MapPD(id) == [shape |-> "map", id |-> id]
OtherPD == [shape |-> "other", id |-> EmptyStr]

\* A libdns.Record: kind is the Go type (Address, CNAME, TXT, MX, SRV,
\* ServiceBinding, RR, or Other for a foreign implementation of the
\* interface); type is RR.Type for the kinds that carry it; data is the IP
\* text, the target, the text or RR.Data.
LibRec(kind, name, type, data, ttl, prio, pd) ==
    [kind |-> kind, name |-> name, type |-> type, data |-> data, ttl |-> ttl,
     prio |-> prio, weight |-> 0, port |-> 0, target |-> EmptyStr,
     value |-> EmptyStr, pd |-> pd]

\* record.RR().Type and record.RR().Name
RRType(r) ==
    CASE r.kind = "Address" -> (IF Is6(r.data) THEN "AAAA" ELSE "A")
      [] r.kind \in {"CNAME", "TXT", "MX", "SRV"} -> r.kind
      [] r.kind = "ServiceBinding" -> "HTTPS"
      [] OTHER -> r.type

RRName(r) == r.name

SideChannelKinds == {"Address", "CNAME", "TXT", "MX", "SRV"}

extractRecordIDAnyKind(r) ==
    IF r.pd.shape = "map" THEN r.pd.id ELSE EmptyStr

\* provider.go:465-493
extractRecordID(r) ==
    IF r.kind \in SideChannelKinds /\ r.pd.shape = "map" THEN r.pd.id ELSE EmptyStr

isRecordIDAlways(id) == TRUE

isRecordIDNonEmpty(id) == id # EmptyStr

\* provider.go:496-500
isRecordID(id) == ~Contains(id, Bar)

NjRec(id, domain, type, name, content, ttl, prio) ==
    [ID |-> id, Domain |-> domain, Type |-> type, Name |-> name,
     Content |-> content, TTL |-> ttl, Prio |-> prio, Weight |-> 0, Port |-> 0,
     Target |-> EmptyStr, Value |-> EmptyStr]

njallaRecordToLibdnsNoID(nr) ==
    [err |-> NoError,
     rec |-> LibRec("RR", nr.Name, nr.Type, nr.Content, nr.TTL * TicksPerSecond, 0, NoPD)]

\* types.go:83-225; the result is [err, rec]
njallaRecordToLibdns(nr) ==
    LET ttl == nr.TTL * TicksPerSecond
        pd  == MapPD(nr.ID)
        ok(rec) == [err |-> NoError, rec |-> rec]
        base(kind, data) ==
            [kind |-> kind, name |-> nr.Name, type |-> nr.Type, data |-> data,
             ttl |-> ttl, prio |-> 0, weight |-> 0, port |-> 0,
             target |-> EmptyStr, value |-> EmptyStr, pd |-> pd]
    IN  CASE nr.Type \in {"A", "AAAA"} ->
               IF nr.Content \in ValidIPs
               THEN ok(base("Address", CanonicalIP(nr.Content)))
               ELSE [err |-> <<"invalidIP", nr.Type>>, rec |-> base("Address", EmptyStr)]
          [] nr.Type \in {"CNAME", "TXT"} -> ok(base(nr.Type, nr.Content))
          [] nr.Type = "MX" ->
               ok([base("MX", nr.Content) EXCEPT !.prio = nr.Prio])
          [] nr.Type = "SRV" ->
               ok([base("SRV", nr.Content) EXCEPT !.prio = nr.Prio,
                        !.weight = nr.Weight, !.port = nr.Port])
          [] nr.Type = "HTTPS" ->
               ok([base("ServiceBinding", EmptyStr) EXCEPT !.prio = nr.Prio,
                        !.target = nr.Target, !.value = nr.Value])
          [] nr.Type = "SVCB" ->
               ok([base("ServiceBinding", EmptyStr) EXCEPT !.prio = nr.Prio,
                        !.target = nr.Target, !.value = nr.Content])
          [] OTHER ->
               ok([base("RR", nr.Content) EXCEPT !.pd = NoPD])

\* types.go:228-322; the result is [err, rec]
libdnsRecordToNjalla(r, z) ==
    LET result == [ID |-> EmptyStr, Domain |-> z, Type |-> "",
                   Name |-> RelativeName(RRName(r), z \o <<Dot>>),
                   Content |-> EmptyStr, TTL |-> r.ttl \div TicksPerSecond,
                   Prio |-> 0, Weight |-> 0, Port |-> 0, Target |-> EmptyStr,
                   Value |-> EmptyStr]
        id == IF r.pd.shape = "map" THEN r.pd.id ELSE EmptyStr
        ok(rec) == [err |-> NoError, rec |-> rec]
    IN  CASE r.kind = "Address" ->
               ok([result EXCEPT !.Type = RRType(r), !.Content = r.data, !.ID = id])
          [] r.kind \in {"CNAME", "TXT"} ->
               ok([result EXCEPT !.Type = r.kind, !.Content = r.data, !.ID = id])
          [] r.kind = "MX" ->
               ok([result EXCEPT !.Type = "MX", !.Content = r.data,
                        !.Prio = r.prio, !.ID = id])
          [] r.kind = "SRV" ->
               ok([result EXCEPT !.Type = "SRV", !.Content = r.data, !.Prio = r.prio,
                        !.Weight = r.weight, !.Port = r.port, !.ID = id])
          [] r.kind = "ServiceBinding" ->
               ok([result EXCEPT !.Type = "HTTPS", !.Name = RelativeName(r.name, z \o <<Dot>>),
                        !.Target = r.target, !.Prio = r.prio, !.Value = r.value,
                        !.ID = id])
          [] r.kind = "RR" ->
               ok([result EXCEPT !.Type = r.type, !.Content = r.data])
          [] OTHER ->
               [err |-> <<"unsupported", r.kind>>, rec |-> result]

----------------------------------------------------------------------------
(* Inputs of the Provider operations *)

ZoneName == <<"example", Dot, "com">>

\* The zone as callers give it: without a trailing dot, or with the one of
\* a fully qualified name.
Zones == {ZoneName, ZoneName \o <<Dot>>}

\* The zone argument is any string: it may end in more than one dot.
ZoneStrings == Zones \cup {ZoneName \o <<Dot, Dot>>}

\* Two ticks of TTL are one second, so TTLs that are not whole seconds occur.
DesiredRecords ==
    { LibRec("Address", <<"test">>, "", <<"192.0.2.1">>, 7, 0, NoPD),
      LibRec("Address", <<"test">>, "", <<"192.0.2.2">>, 4, 0, MapPD(<<"id1">>)),
      LibRec("Address", <<"test">> \o <<Dot>> \o ZoneName \o <<Dot>>, "",
             <<"2001:db8::1">>, 4, 0, MapPD(<<"id2">>)),
      LibRec("CNAME", <<"www">>, "", <<"target">>, 4, 0, MapPD(<<"id1">>)),
      LibRec("TXT", <<"www">>, "", <<"text">>, 4, 0, OtherPD),
      LibRec("MX", <<"@">>, "", <<"mail">>, 4, 10, MapPD(EmptyStr)),
      LibRec("RR", <<"@">>, "NS", <<"ns1">>, 4, 0, NoPD),
      LibRec("ServiceBinding", <<"svc">>, "", EmptyStr, 4, 1, MapPD(<<"id3">>)),
      LibRec("Address", <<"test">> \o <<Dot>> \o ZoneName \o <<Dot>>, "",
             <<"192.0.2.1">>, 4, 0, NoPD),
      LibRec("Other", <<"test">>, "UNSUPPORTED", <<"data">>, 4, 0, NoPD) }

RECURSIVE SeqsUpTo(_, _)
SeqsUpTo(S, n) ==
    IF n = 0 THEN {<<>>}
    ELSE LET shorter == SeqsUpTo(S, n - 1)
         IN  shorter \cup {Append(q, x) : q \in shorter, x \in S}

Batches == SeqsUpTo(DesiredRecords, MaxBatch)

\* What list-records answers: the zone's remote records.
RemoteA1 == NjRec(<<"r1">>, ZoneName, "A", <<"test">>, <<"192.0.2.1">>, 3600, 0)
RemoteA2 == NjRec(<<"r2">>, ZoneName, "A", <<"test">>, <<"192.0.2.2">>, 300, 0)
RemoteNS == NjRec(<<"r3">>, ZoneName, "NS", <<"@">>, <<"ns1">>, 86400, 0)
RemoteMX == NjRec(EmptyStr, ZoneName, "MX", <<"@">>, <<"mail">>, 300, 10)
RemoteBad == NjRec(<<"r5">>, ZoneName, "A", <<"bad">>, <<"invalid-ip">>, 300, 0)
\* A listed record whose token a desired record carries.
RemoteOwn == NjRec(<<"id1">>, ZoneName, "A", <<"test">>, <<"192.0.2.2">>, 300, 0)

Listings ==
    { <<>>, <<RemoteA1>>, <<RemoteA1, RemoteA2>>, <<RemoteNS, RemoteMX>>,
      <<RemoteA1, RemoteBad>>, <<RemoteNS>> }

NewID == <<"new">>

\* What the remote answers to add-record and edit-record: the record it
\* stored (the request's fields under the record's identity), or a record
\* that njallaRecordToLibdns cannot decode.
Stored(id, req) ==
    [ID |-> id, Domain |-> req.Domain, Type |-> req.Type, Name |-> req.Name,
     Content |-> req.Content, TTL |-> req.TTL, Prio |-> req.Prio,
     Weight |-> req.Weight, Port |-> req.Port, Target |-> req.Target,
     Value |-> req.Value]

Undecodable(id, req) ==
    [Stored(id, req) EXCEPT !.Type = "A", !.Content = <<"invalid-ip">>]

\* The outcome of one client.call: <<"err">> or <<"ok", response>>.
WriteOutcomes(id, req) ==
    {<<"err">>, <<"ok", Stored(id, req)>>, <<"ok", Undecodable(id, req)>>}

ListOutcomes == {<<"err">>, <<"ok", listing>>}

\* ctx.Err() after a client.call that began with the context c: a context
\* that is done stays as it is, one that is not may be cancelled while the
\* call runs, or pass its deadline when it has one.
CtxAfter(c) ==
    IF c.err = ""
    THEN {"", "canceled"} \cup (IF c.hasDeadline THEN {"deadline"} ELSE {})
    ELSE {c.err}

\* The timeouts of SetRecords and DeleteRecords, in seconds.
DefaultTimeout == 60
FetchTimeout == 20
OpTimeout == 10

\* The clock once the operation's context has err e: a deadline that has
\* passed is not in the future.
ClockAfter(e) ==
    IF e = "deadline" /\ pctx.err = "" /\ now < pctx.deadline
    THEN pctx.deadline
    ELSE now

WithTimeoutIgnoreParent(parent, d) ==
    [hasDeadline |-> TRUE, deadline |-> now + d, err |-> parent.err]

\* context.WithTimeout(parent, d): the deadline is d from now, unless the
\* parent's is earlier.
WithTimeout(parent, d) ==
    [hasDeadline |-> TRUE,
     deadline |-> IF parent.hasDeadline /\ parent.deadline < now + d
                  THEN parent.deadline
                  ELSE now + d,
     err |-> parent.err]

\* provider.go:163-167 and 374-379
WithDefaultDeadline(c) ==
    IF c.hasDeadline THEN c ELSE WithTimeout(c, DefaultTimeout)

\* The context handed to client.call: fetchCtx for the list-records call of
\* SetRecords and DeleteRecords (provider.go:192, 404), opCtx for their
\* per-record calls (provider.go:213, 262, 435), and the caller's own in
\* GetRecords and AppendRecords.
CallCtx(method) ==
    IF op \in {"Set", "Delete"}
    THEN WithTimeout(pctx, IF method = "list-records" THEN FetchTimeout ELSE OpTimeout)
    ELSE pctx

\* The caller's contexts: without a deadline, or with one of ds; not done,
\* or cancelled already.
CallerContexts(ds) ==
    {[hasDeadline |-> FALSE, deadline |-> 0, err |-> e] : e \in {"", "canceled"}}
        \cup {[hasDeadline |-> TRUE, deadline |-> d, err |-> e] :
                 d \in ds, e \in {"", "canceled"}}

\* Deadlines before the per-call timeout, between it and the list timeout,
\* between that and the default timeout, and beyond.
CallerDeadlines == {8, 15, 45, 100}

----------------------------------------------------------------------------
(* Provider.getClient, Provider.GetRecords and Provider.SetRecords *)

\* provider.go:38-47: the client after getClient, and whether the Once ran.
getClient ==
    IF clientOnce THEN client
    ELSE IF apiToken = "" THEN "nil" ELSE "client"

\* One client.call: the method, the request, the input record it is for,
\* the deadline of the context it runs under and the time it is issued at.
Call(method, req, rec) ==
    [method |-> method, req |-> req, rec |-> rec,
     deadline |-> CallCtx(method).deadline,
     hasDeadline |-> CallCtx(method).hasDeadline,
     at |-> now]

NoRecord == LibRec("none", EmptyStr, "", EmptyStr, 0, 0, NoPD)

CountCalls(log, method) ==
    Cardinality({i \in 1 .. Len(log) : log[i].method = method})

\* provider.go:177-186: the partition of the input.
RECURSIVE ByKey(_)
ByKey(rs) ==
    IF rs = <<>> THEN <<>>
    ELSE LET front == ByKey(SubSeq(rs, 1, Len(rs) - 1))
             r     == rs[Len(rs)]
             id    == extractRecordID(r)
         IN  IF id # EmptyStr
             THEN [k \in DOMAIN front \cup {id} |-> IF k = id THEN r ELSE front[k]]
             ELSE front

RECURSIVE WithoutIDs(_)
WithoutIDs(rs) ==
    IF rs = <<>> THEN <<>>
    ELSE IF extractRecordID(rs[1]) = EmptyStr
         THEN <<rs[1]>> \o WithoutIDs(Tail(rs))
         ELSE WithoutIDs(Tail(rs))

RECURSIVE DecodeAllSkipBad(_)
DecodeAllSkipBad(nrs) ==
    IF nrs = <<>> THEN [err |-> NoError, recs |-> <<>>]
    ELSE LET d    == njallaRecordToLibdns(nrs[1])
             rest == DecodeAllSkipBad(Tail(nrs))
         IN  IF d.err # NoError THEN rest
             ELSE [err |-> NoError, recs |-> <<d.rec>> \o rest.recs]

\* provider.go:73-81: decode every listed record; the first failure fails
\* the whole list.  The result is [err, recs].
RECURSIVE DecodeAll(_)
DecodeAll(nrs) ==
    IF nrs = <<>> THEN [err |-> NoError, recs |-> <<>>]
    ELSE LET d == njallaRecordToLibdns(nrs[1])
         IN  IF d.err # NoError
             THEN [err |-> <<"convert", d.err>>, recs |-> <<>>]
             ELSE LET rest == DecodeAll(Tail(nrs))
                  IN  IF rest.err # NoError THEN rest
                      ELSE [err |-> NoError, recs |-> <<d.rec>> \o rest.recs]

\* provider.go:201-205: the lookup by "name|type"; a later record replaces
\* an earlier one under the same key.
RECURSIVE ExistingByKey(_)
ExistingByKey(rs) ==
    IF rs = <<>> THEN <<>>
    ELSE LET front == ExistingByKey(SubSeq(rs, 1, Len(rs) - 1))
             r     == rs[Len(rs)]
             key   == KeyOf(RRName(r), RRType(r))
         IN  [k \in DOMAIN front \cup {key} |-> IF k = key THEN r ELSE front[k]]

EmptyMap == <<>>

DoneDiscard(isNil, recs, err) ==
    /\ out' = [done |-> TRUE, isNil |-> TRUE, records |-> <<>>, err |-> err]
    /\ ppc' = "done"

\* The return of an operation: the slice (nil or not) and the error.
Done(isNil, recs, err) ==
    /\ out' = [done |-> TRUE, isNil |-> isNil, records |-> recs, err |-> err]
    /\ ppc' = "done"

TokenMissingNever == FALSE

\* provider.go:53, 93, 153 and 364: the check every operation begins with.
TokenMissing == apiToken = ""

MissingIDNever(id) == FALSE

\* provider.go:277
MissingID(id) == id = EmptyStr

\* provider.go:152-186: the token and client checks, the default deadline,
\* the zone normalisation and the partition of the input.
SetStart ==
    /\ op = "Set"
    /\ ppc = "start"
    /\ IF TokenMissing
       THEN /\ Done(TRUE, <<>>, <<"tokenRequired">>)
            /\ UNCHANGED <<client, clientOnce, pctx, now, zone, recordsByKey,
                           recordsWithoutIDs, iter, idx>>
       ELSE IF getClient = "nil"
       THEN /\ clientOnce' = TRUE
            /\ client' = getClient
            /\ Done(TRUE, <<>>, <<"clientNotInitialized">>)
            /\ UNCHANGED <<pctx, now, zone, recordsByKey, recordsWithoutIDs, iter, idx>>
       ELSE /\ clientOnce' = TRUE
            /\ client' = getClient
            /\ pctx' = WithDefaultDeadline(pctx)
            /\ now' = now
            /\ zone' = TrimSuffix(zoneArg, <<Dot>>)
            /\ recordsByKey' = ByKey(records)
            /\ recordsWithoutIDs' = WithoutIDs(records)
            /\ iter' = DOMAIN ByKey(records)
            /\ idx' = 1
            /\ ppc' = IF WithoutIDs(records) # <<>> THEN "list" ELSE "withIDs"
            /\ out' = out
    /\ UNCHANGED <<apiToken, zoneArg, records, existingRecordsByKey, setRecords,
                   listing, calls>>
    /\ UNCHANGED <<callVars, bk, cvt, sharedVars, op, appendVars, deleteVars>>

\* An operation that goes on to its per-record calls after a failed List.
ListFailedContinue(err) ==
    /\ ppc' = IF op = "Set" THEN "withIDs" ELSE "delete"
    /\ out' = out

\* provider.go:197-199 and 408-410: a failed List ends the operation.
ListFailed(err) == Done(TRUE, <<>>, <<"getExisting", err>>)

\* provider.go:188-206 with GetRecords (provider.go:52-84) under fetchCtx:
\* one list-records call for the zone, normalised again by GetRecords.
SetList ==
    /\ ppc = "list"
    /\ \E o \in ListOutcomes, e \in CtxAfter(pctx) :
          /\ pctx.err # "" => o = <<"err">>
          /\ pctx' = [pctx EXCEPT !.err = e]
          /\ now' = ClockAfter(e)
          /\ calls' = Append(calls, Call("list-records",
                                         [Domain |-> TrimSuffix(zone, <<Dot>>)], NoRecord))
          /\ IF o[1] = "err"
             THEN /\ ListFailed(<<"list">>)
                  /\ UNCHANGED existingRecordsByKey
             ELSE LET d == DecodeAll(o[2])
                  IN  IF d.err # NoError
                      THEN /\ ListFailed(d.err)
                           /\ UNCHANGED existingRecordsByKey
                      ELSE /\ existingRecordsByKey' = ExistingByKey(d.recs)
                           /\ ppc' = "withIDs"
                           /\ out' = out
    /\ UNCHANGED <<apiToken, clientOnce, client, zoneArg, records, zone,
                   recordsByKey, recordsWithoutIDs, setRecords, iter, idx, listing>>
    /\ UNCHANGED <<callVars, bk, cvt, sharedVars, op, appendVars, deleteVars>>

\* provider.go:222-233, 284-295 and 311-321: the requests carry no value field.
editRecordRequest(id, nj) ==
    [nj EXCEPT !.ID = id, !.Domain = zone, !.Value = EmptyStr]

addRecordRequest(nj) ==
    [nj EXCEPT !.ID = EmptyStr, !.Domain = zone, !.Value = EmptyStr]

AfterWriteGeneric(o, e, errKind) ==
    IF o[1] = "err"
    THEN Done(FALSE, setRecords, <<"update">>) /\ UNCHANGED setRecords
    ELSE LET d == njallaRecordToLibdns(o[2])
         IN  IF d.err # NoError
             THEN Done(FALSE, setRecords, <<"convertResponse", d.err>>)
                  /\ UNCHANGED setRecords
             ELSE /\ setRecords' = Append(setRecords, d.rec)
                  /\ IF e # ""
                     THEN Done(FALSE, Append(setRecords, d.rec), <<"ctx", e>>)
                     ELSE ppc' = ppc /\ out' = out

AfterWriteNoCheck(o, e, errKind) ==
    IF o[1] = "err"
    THEN Done(FALSE, setRecords, <<errKind>>) /\ UNCHANGED setRecords
    ELSE LET d == njallaRecordToLibdns(o[2])
         IN  IF d.err # NoError
             THEN Done(FALSE, setRecords, <<"convertResponse", d.err>>)
                  /\ UNCHANGED setRecords
             ELSE /\ setRecords' = Append(setRecords, d.rec)
                  /\ ppc' = ppc
                  /\ out' = out

\* provider.go:236-256 and 298-348: what follows one edit-record or
\* add-record call: the error return, the decoding of the response, the
\* append and the check of the parent context.
AfterWrite(o, e, errKind) ==
    IF o[1] = "err"
    THEN Done(FALSE, setRecords, <<errKind>>) /\ UNCHANGED setRecords
    ELSE LET d == njallaRecordToLibdns(o[2])
         IN  IF d.err # NoError
             THEN Done(FALSE, setRecords, <<"convertResponse", d.err>>)
                  /\ UNCHANGED setRecords
             ELSE /\ setRecords' = Append(setRecords, d.rec)
                  /\ IF e # ""
                     THEN Done(FALSE, Append(setRecords, d.rec), <<"ctx", e>>)
                     ELSE ppc' = ppc /\ out' = out

\* provider.go:211-257: one iteration of the range over recordsByKey, in
\* whatever order the map yields its keys.
SetWithID ==
    /\ ppc = "withIDs"
    /\ iter # {}
    /\ \E id \in iter :
          LET conv == libdnsRecordToNjalla(recordsByKey[id], zone)
              req  == editRecordRequest(id, conv.rec)
          IN  /\ iter' = iter \ {id}
              /\ IF conv.err # NoError
                 THEN /\ Done(TRUE, <<>>, <<"convert", conv.err>>)
                      /\ UNCHANGED <<calls, pctx, now, setRecords>>
                 ELSE \E o \in WriteOutcomes(id, req), e \in CtxAfter(pctx) :
                        /\ pctx.err # "" => o = <<"err">>
                        /\ pctx' = [pctx EXCEPT !.err = e]
                        /\ now' = ClockAfter(e)
                        /\ calls' = Append(calls, Call("edit-record", req, recordsByKey[id]))
                        /\ AfterWrite(o, e, "updateRecord")
    /\ UNCHANGED <<apiToken, clientOnce, client, zoneArg, records, zone,
                   recordsByKey, recordsWithoutIDs, existingRecordsByKey, idx, listing>>
    /\ UNCHANGED <<callVars, bk, cvt, sharedVars, op, appendVars, deleteVars>>

\* provider.go:260: the first range is over; the second begins.
SetWithIDsDone ==
    /\ ppc = "withIDs"
    /\ iter = {}
    /\ ppc' = "withoutIDs"
    /\ UNCHANGED <<apiToken, clientOnce, client, zoneArg, records, pctx, now, zone,
                   recordsByKey, recordsWithoutIDs, existingRecordsByKey,
                   setRecords, iter, idx, listing, calls, out>>
    /\ UNCHANGED <<callVars, bk, cvt, sharedVars, op, appendVars, deleteVars>>

\* provider.go:264-265: the probe of the lookup.
Probe(record) == KeyOf(RRName(record), RRType(record))

\* A lookup that also holds the records this call has written so far.
LookupRefreshed ==
    LET written == ExistingByKey(setRecords)
    IN  [k \in DOMAIN existingRecordsByKey \cup DOMAIN written |->
            IF k \in DOMAIN written THEN written[k] ELSE existingRecordsByKey[k]]

\* provider.go:265: the lookup probed is the one built from the listing at
\* provider.go:201-205; nothing is written to it afterwards.
Lookup == existingRecordsByKey

\* provider.go:260-349: one iteration of the range over recordsWithoutIDs.
SetWithoutID ==
    /\ ppc = "withoutIDs"
    /\ idx <= Len(recordsWithoutIDs)
    /\ LET record == recordsWithoutIDs[idx]
           key    == Probe(record)
           exists == key \in DOMAIN Lookup
           conv   == libdnsRecordToNjalla(record, zone)
       IN  /\ idx' = idx + 1
           /\ IF conv.err # NoError
              THEN /\ Done(TRUE, <<>>, <<"convert", conv.err>>)
                   /\ UNCHANGED <<calls, pctx, now, setRecords>>
              ELSE IF exists
              THEN LET id  == extractRecordID(Lookup[key])
                       req == editRecordRequest(id, conv.rec)
                   IN  IF MissingID(id)
                       THEN /\ Done(TRUE, <<>>, <<"missingID">>)
                            /\ UNCHANGED <<calls, pctx, now, setRecords>>
                       ELSE \E o \in WriteOutcomes(id, req), e \in CtxAfter(pctx) :
                              /\ pctx.err # "" => o = <<"err">>
                              /\ pctx' = [pctx EXCEPT !.err = e]
                              /\ now' = ClockAfter(e)
                              /\ calls' = Append(calls, Call("edit-record", req, record))
                              /\ AfterWrite(o, e, "update")
              ELSE LET req == addRecordRequest(conv.rec)
                   IN  \E o \in WriteOutcomes(NewID, req), e \in CtxAfter(pctx) :
                         /\ pctx.err # "" => o = <<"err">>
                         /\ pctx' = [pctx EXCEPT !.err = e]
                         /\ now' = ClockAfter(e)
                         /\ calls' = Append(calls, Call("add-record", req, record))
                         /\ AfterWrite(o, e, "add")
    /\ UNCHANGED <<apiToken, clientOnce, client, zoneArg, records, zone,
                   recordsByKey, recordsWithoutIDs, existingRecordsByKey, iter, listing>>
    /\ UNCHANGED <<callVars, bk, cvt, sharedVars, op, appendVars, deleteVars>>

\* provider.go:351
SetReturn ==
    /\ ppc = "withoutIDs"
    /\ idx > Len(recordsWithoutIDs)
    /\ Done(FALSE, setRecords, NoError)
    /\ UNCHANGED <<apiToken, clientOnce, client, zoneArg, records, pctx, now, zone,
                   recordsByKey, recordsWithoutIDs, existingRecordsByKey,
                   setRecords, iter, idx, listing, calls>>
    /\ UNCHANGED <<callVars, bk, cvt, sharedVars, op, appendVars, deleteVars>>

\* The caller cancels the context, or its deadline passes, between two
\* steps of the operation.
ParentCancel ==
    /\ ppc \notin {"idle", "start", "done"}
    /\ pctx.err = ""
    /\ \E e \in {"canceled", "deadline"} :
          /\ pctx' = [pctx EXCEPT !.err = e]
          /\ now' = ClockAfter(e)
    /\ UNCHANGED <<apiToken, clientOnce, client, zoneArg, records, zone, ppc,
                   recordsByKey, recordsWithoutIDs, existingRecordsByKey,
                   setRecords, iter, idx, listing, calls, out>>
    /\ UNCHANGED <<callVars, bk, cvt, sharedVars, op, appendVars, deleteVars>>

SetNext ==
    \/ SetStart
    \/ SetList
    \/ SetWithID
    \/ SetWithIDsDone
    \/ SetWithoutID
    \/ SetReturn
    \/ ParentCancel

----------------------------------------------------------------------------
(* Provider.GetRecords *)

\* provider.go:52-63: the token and client checks and the zone normalisation.
GetStart ==
    /\ op = "Get"
    /\ ppc = "start"
    /\ IF TokenMissing
       THEN /\ Done(TRUE, <<>>, <<"tokenRequired">>)
            /\ UNCHANGED <<client, clientOnce, zone>>
       ELSE IF getClient = "nil"
       THEN /\ clientOnce' = TRUE
            /\ client' = getClient
            /\ Done(TRUE, <<>>, <<"clientNotInitialized">>)
            /\ UNCHANGED zone
       ELSE /\ clientOnce' = TRUE
            /\ client' = getClient
            /\ zone' = TrimSuffix(zoneArg, <<Dot>>)
            /\ ppc' = "getList"
            /\ out' = out
    /\ UNCHANGED <<apiToken, zoneArg, records, pctx, now, recordsByKey, recordsWithoutIDs,
                   existingRecordsByKey, setRecords, iter, idx, listing, calls, op,
                   appendVars, deleteVars>>
    /\ UNCHANGED <<callVars, bk, cvt, sharedVars>>

\* provider.go:65-83: the list-records call and the decoding of its answer.
GetList ==
    /\ ppc = "getList"
    /\ \E o \in ListOutcomes, e \in CtxAfter(pctx) :
          /\ pctx.err # "" => o = <<"err">>
          /\ pctx' = [pctx EXCEPT !.err = e]
          /\ now' = ClockAfter(e)
          /\ calls' = Append(calls, Call("list-records", [Domain |-> zone], NoRecord))
          /\ IF o[1] = "err"
             THEN Done(TRUE, <<>>, <<"list">>)
             ELSE LET d == DecodeAll(o[2])
                  IN  IF d.err # NoError
                      THEN Done(TRUE, <<>>, d.err)
                      ELSE Done(FALSE, d.recs, NoError)
    /\ UNCHANGED <<apiToken, clientOnce, client, zoneArg, records, zone, recordsByKey,
                   recordsWithoutIDs, existingRecordsByKey, setRecords, iter, idx,
                   listing, op, appendVars, deleteVars>>
    /\ UNCHANGED <<callVars, bk, cvt, sharedVars>>

GetNext ==
    \/ GetStart
    \/ GetList

----------------------------------------------------------------------------
(* Provider.AppendRecords *)

\* provider.go:92-105
AppendStart ==
    /\ op = "Append"
    /\ ppc = "start"
    /\ IF TokenMissing
       THEN /\ Done(TRUE, <<>>, <<"tokenRequired">>)
            /\ UNCHANGED <<client, clientOnce, zone, appendedRecords, idx>>
       ELSE IF getClient = "nil"
       THEN /\ clientOnce' = TRUE
            /\ client' = getClient
            /\ Done(TRUE, <<>>, <<"clientNotInitialized">>)
            /\ UNCHANGED <<zone, appendedRecords, idx>>
       ELSE /\ clientOnce' = TRUE
            /\ client' = getClient
            /\ zone' = TrimSuffix(zoneArg, <<Dot>>)
            /\ appendedRecords' = <<>>
            /\ idx' = 1
            /\ ppc' = "append"
            /\ out' = out
    /\ UNCHANGED <<apiToken, zoneArg, records, pctx, now, recordsByKey, recordsWithoutIDs,
                   existingRecordsByKey, setRecords, iter, listing, calls, op,
                   deleteVars>>
    /\ UNCHANGED <<callVars, bk, cvt, sharedVars>>

\* provider.go:106-138: one iteration of the range over records.
AppendOne ==
    /\ ppc = "append"
    /\ idx <= Len(records)
    /\ LET record == records[idx]
           conv   == libdnsRecordToNjalla(record, zone)
           req    == addRecordRequest(conv.rec)
       IN  /\ idx' = idx + 1
           /\ IF conv.err # NoError
              THEN /\ Done(FALSE, appendedRecords, <<"convert", conv.err>>)
                   /\ UNCHANGED <<calls, pctx, now, appendedRecords>>
              ELSE \E o \in WriteOutcomes(NewID, req), e \in CtxAfter(pctx) :
                     /\ pctx.err # "" => o = <<"err">>
                     /\ pctx' = [pctx EXCEPT !.err = e]
                     /\ now' = ClockAfter(e)
                     /\ calls' = Append(calls, Call("add-record", req, record))
                     /\ IF o[1] = "err"
                        THEN /\ Done(FALSE, appendedRecords, <<"add">>)
                             /\ UNCHANGED appendedRecords
                        ELSE LET d == njallaRecordToLibdns(o[2])
                             IN  IF d.err # NoError
                                 THEN /\ Done(FALSE, appendedRecords,
                                              <<"convertResponse", d.err>>)
                                      /\ UNCHANGED appendedRecords
                                 ELSE /\ appendedRecords' = Append(appendedRecords, d.rec)
                                      /\ ppc' = ppc
                                      /\ out' = out
    /\ UNCHANGED <<apiToken, clientOnce, client, zoneArg, records, zone, recordsByKey,
                   recordsWithoutIDs, existingRecordsByKey, setRecords, iter,
                   listing, op, deleteVars>>
    /\ UNCHANGED <<callVars, bk, cvt, sharedVars>>

\* provider.go:141
AppendReturn ==
    /\ ppc = "append"
    /\ idx > Len(records)
    /\ Done(FALSE, appendedRecords, NoError)
    /\ UNCHANGED <<apiToken, clientOnce, client, zoneArg, records, pctx, now, zone,
                   recordsByKey, recordsWithoutIDs, existingRecordsByKey, setRecords,
                   iter, idx, listing, calls, op, appendVars, deleteVars>>
    /\ UNCHANGED <<callVars, bk, cvt, sharedVars>>

AppendNext ==
    \/ AppendOne
    \/ AppendStart
    \/ AppendReturn

----------------------------------------------------------------------------
(* Provider.DeleteRecords *)

\* provider.go:384-399: the lookup of the input by identity or by
\* "name|type", and the keys that need the listing.
RECURSIVE RecordMap(_)
RecordMap(rs) ==
    IF rs = <<>> THEN <<>>
    ELSE LET front == RecordMap(SubSeq(rs, 1, Len(rs) - 1))
             r     == rs[Len(rs)]
             id    == extractRecordID(r)
             k     == IF id # EmptyStr THEN id ELSE KeyOf(RRName(r), RRType(r))
         IN  [x \in DOMAIN front \cup {k} |-> IF x = k THEN r ELSE front[x]]

RECURSIVE idsNeeded(_)
idsNeeded(rs) ==
    IF rs = <<>> THEN <<>>
    ELSE IF extractRecordID(rs[1]) = EmptyStr
         THEN <<KeyOf(RRName(rs[1]), RRType(rs[1]))>> \o idsNeeded(Tail(rs))
         ELSE idsNeeded(Tail(rs))

RECURSIVE MatchExistingKeepRemote(_, _)
MatchExistingKeepRemote(m, existing) ==
    IF existing = <<>> THEN m
    ELSE LET e   == existing[1]
             key == KeyOf(RRName(e), RRType(e))
             id  == extractRecordID(e)
             m2  == IF key \in DOMAIN m /\ id # EmptyStr
                    THEN [x \in (DOMAIN m \cup {id}) \ {key} |->
                             IF x = id THEN e ELSE m[x]]
                    ELSE m
         IN  MatchExistingKeepRemote(m2, Tail(existing))

\* provider.go:412-424: every listed record, in order, moves the input
\* record under its key to the listed record's identity.
RECURSIVE MatchExisting(_, _)
MatchExisting(m, existing) ==
    IF existing = <<>> THEN m
    ELSE LET e   == existing[1]
             key == KeyOf(RRName(e), RRType(e))
             id  == extractRecordID(e)
             m2  == IF key \in DOMAIN m /\ id # EmptyStr
                    THEN [x \in (DOMAIN m \cup {id}) \ {key} |->
                             IF x = id THEN m[key] ELSE m[x]]
                    ELSE m
         IN  MatchExisting(m2, Tail(existing))

\* provider.go:363-399
DeleteStart ==
    /\ op = "Delete"
    /\ ppc = "start"
    /\ IF TokenMissing
       THEN /\ Done(TRUE, <<>>, <<"tokenRequired">>)
            /\ UNCHANGED <<client, clientOnce, pctx, now, zone, recordMap, deletedRecords,
                           iter>>
       ELSE IF getClient = "nil"
       THEN /\ clientOnce' = TRUE
            /\ client' = getClient
            /\ Done(TRUE, <<>>, <<"clientNotInitialized">>)
            /\ UNCHANGED <<pctx, now, zone, recordMap, deletedRecords, iter>>
       ELSE /\ clientOnce' = TRUE
            /\ client' = getClient
            /\ pctx' = WithDefaultDeadline(pctx)
            /\ now' = now
            /\ zone' = TrimSuffix(zoneArg, <<Dot>>)
            /\ deletedRecords' = <<>>
            /\ recordMap' = RecordMap(records)
            /\ iter' = DOMAIN RecordMap(records)
            /\ ppc' = IF Len(idsNeeded(records)) > 0 THEN "deleteList" ELSE "delete"
            /\ out' = out
    /\ UNCHANGED <<apiToken, zoneArg, records, recordsByKey, recordsWithoutIDs,
                   existingRecordsByKey, setRecords, idx, listing, calls, op,
                   appendVars>>
    /\ UNCHANGED <<callVars, bk, cvt, sharedVars>>

\* provider.go:401-425 with GetRecords (provider.go:52-84) under fetchCtx.
DeleteList ==
    /\ ppc = "deleteList"
    /\ \E o \in ListOutcomes, e \in CtxAfter(pctx) :
          /\ pctx.err # "" => o = <<"err">>
          /\ pctx' = [pctx EXCEPT !.err = e]
          /\ now' = ClockAfter(e)
          /\ calls' = Append(calls, Call("list-records",
                                         [Domain |-> TrimSuffix(zone, <<Dot>>)], NoRecord))
          /\ IF o[1] = "err"
             THEN /\ ListFailed(<<"list">>)
                  /\ UNCHANGED <<recordMap, iter>>
             ELSE LET d == DecodeAll(o[2])
                  IN  IF d.err # NoError
                      THEN /\ ListFailed(d.err)
                           /\ UNCHANGED <<recordMap, iter>>
                      ELSE /\ recordMap' = MatchExisting(recordMap, d.recs)
                           /\ iter' = DOMAIN MatchExisting(recordMap, d.recs)
                           /\ ppc' = "delete"
                           /\ out' = out
    /\ UNCHANGED <<apiToken, clientOnce, client, zoneArg, records, zone, recordsByKey,
                   recordsWithoutIDs, existingRecordsByKey, setRecords, idx, listing,
                   op, appendVars, deletedRecords>>
    /\ UNCHANGED <<callVars, bk, cvt, sharedVars>>

removeRecordRequest(id) == [Domain |-> zone, ID |-> id]

\* A range that comes back to keys it has visited.
UnvisitedAll(id) == iter

\* provider.go:428: the range visits every key of recordMap once.
Unvisited(id) == iter \ {id}

\* The outcome of one remove-record call, which decodes no result.
RemoveOutcomes == {<<"err">>, <<"ok">>}

\* provider.go:427-459: one iteration of the range over recordMap, in
\* whatever order the map yields its keys.
DeleteOne ==
    /\ ppc = "delete"
    /\ iter # {}
    /\ \E id \in iter :
          /\ iter' = Unvisited(id)
          /\ IF ~isRecordID(id)
             THEN UNCHANGED <<calls, pctx, now, deletedRecords, ppc, out>>
             ELSE \E o \in RemoveOutcomes, e \in CtxAfter(pctx) :
                    /\ pctx.err # "" => o = <<"err">>
                    /\ pctx' = [pctx EXCEPT !.err = e]
                    /\ now' = ClockAfter(e)
                    /\ calls' = Append(calls, Call("remove-record",
                                                   removeRecordRequest(id), recordMap[id]))
                    /\ IF o[1] = "err"
                       THEN /\ Done(FALSE, deletedRecords, <<"deleteRecord">>)
                            /\ UNCHANGED deletedRecords
                       ELSE /\ deletedRecords' = Append(deletedRecords, recordMap[id])
                            /\ IF e # ""
                               THEN Done(FALSE, Append(deletedRecords, recordMap[id]),
                                         <<"ctx", e>>)
                               ELSE ppc' = ppc /\ out' = out
    /\ UNCHANGED <<apiToken, clientOnce, client, zoneArg, records, zone, recordsByKey,
                   recordsWithoutIDs, existingRecordsByKey, setRecords, idx, listing,
                   op, appendVars, recordMap>>
    /\ UNCHANGED <<callVars, bk, cvt, sharedVars>>

\* provider.go:461
DeleteReturn ==
    /\ ppc = "delete"
    /\ iter = {}
    /\ Done(FALSE, deletedRecords, NoError)
    /\ UNCHANGED <<apiToken, clientOnce, client, zoneArg, records, pctx, now, zone,
                   recordsByKey, recordsWithoutIDs, existingRecordsByKey, setRecords,
                   iter, idx, listing, calls, op, appendVars, deleteVars>>
    /\ UNCHANGED <<callVars, bk, cvt, sharedVars>>

DeleteNext ==
    \/ DeleteStart
    \/ DeleteList
    \/ DeleteOne
    \/ DeleteReturn

\* Time passes between two steps of the operation; a context that has a
\* deadline and is not done has not reached it.
TimePasses ==
    /\ ppc \notin {"idle", "done"}
    /\ now + ClockStep <= MaxClock
    /\ (pctx.hasDeadline /\ pctx.err = "") => now + ClockStep < pctx.deadline
    /\ now' = now + ClockStep
    /\ UNCHANGED <<apiToken, clientOnce, client, zoneArg, records, pctx, zone, ppc,
                   recordsByKey, recordsWithoutIDs, existingRecordsByKey,
                   setRecords, iter, idx, listing, calls, out>>
    /\ UNCHANGED <<callVars, bk, cvt, sharedVars, op, appendVars, deleteVars>>

\* Any one of the four operations.
ProviderNext ==
    \/ GetStart
    \/ GetList
    \/ AppendStart
    \/ AppendOne
    \/ AppendReturn
    \/ SetStart
    \/ SetList
    \/ SetWithID
    \/ SetWithIDsDone
    \/ SetWithoutID
    \/ SetReturn
    \/ DeleteStart
    \/ DeleteList
    \/ DeleteOne
    \/ DeleteReturn
    \/ ParentCancel

----------------------------------------------------------------------------
(* libdnsRecordToNjalla and njallaRecordToLibdns applied to one record *)

\* Names as callers give them, each with the zone-relative name it stands
\* for in the zone example.com (types_test.go:542-585).
NamePairs ==
    { <<(<<"test">>), (<<"test">>)>>,
      <<(<<"test", Dot>> \o ZoneName \o <<Dot>>), (<<"test">>)>>,
      <<(<<"test", Dot>> \o ZoneName), (<<"test">>)>>,
      <<(ZoneName \o <<Dot>>), (<<"@">>)>>,
      <<(<<"@">>), (<<"@">>)>> }

\* netip.Addr values, by their text.
CanonicalIPs == {CanonicalIP(t) : t \in ValidIPs}

ProviderDatas == {NoPD, MapPD(EmptyStr), MapPD(<<"id1">>), OtherPD}

\* Every libdns.Address over the names, addresses, TTLs and provider data.
AddressRecords ==
    {LibRec("Address", p[1], "", ip, ttl, 0, pd) :
        p \in NamePairs, ip \in CanonicalIPs, ttl \in 0 .. MaxTTLTicks,
        pd \in ProviderDatas}

\* Records of the other kinds: those of DesiredRecords, an SRV, and the
\* libdns kinds that libdnsRecordToNjalla has no case for.
OtherKindRecords ==
    {r \in DesiredRecords : r.kind # "Address"}
        \cup { [LibRec("SRV", <<"_sip">>, "", <<"target">>, 4, 1, MapPD(<<"id1">>))
                   EXCEPT !.weight = 2, !.port = 3],
               LibRec("NS", <<"@">>, "", <<"ns1">>, 4, 0, MapPD(<<"id1">>)),
               LibRec("CAA", <<"@">>, "", <<"issue">>, 4, 0, NoPD) }

RemoteTypes == {"A", "AAAA", "CNAME", "TXT", "MX", "SRV", "HTTPS", "SVCB", "NS", "CAA", "a"}

RemoteContents == ValidIPs \cup {<<"invalid-ip">>, EmptyStr, <<"text">>}

\* Every remote record over the types, contents and ids.
RemoteRecords ==
    {NjRec(id, ZoneName, t, <<"test">>, c, 300, 0) :
        id \in {EmptyStr, <<"r1">>}, t \in RemoteTypes, c \in RemoteContents}

EmptyNj == NjRec(EmptyStr, EmptyStr, "", EmptyStr, EmptyStr, 0, 0)

\* types.go:228-322 applied to the input record.
ConvEncode ==
    /\ cvt.stage = "input"
    /\ LET e == libdnsRecordToNjalla(cvt.rec, cvt.zone)
       IN  cvt' = [cvt EXCEPT !.stage = IF e.err = NoError THEN "encoded"
                                          ELSE "encodeFailed",
                                !.nj = e.rec, !.encErr = e.err]
    /\ UNCHANGED <<callVars, bk, sharedVars, provVars>>

\* types.go:83-225 applied to the remote record, or to the encoding.
ConvDecode ==
    /\ cvt.stage \in {"encoded", "remote"}
    /\ LET d == njallaRecordToLibdns(cvt.nj)
       IN  cvt' = [cvt EXCEPT !.stage = IF d.err = NoError THEN "decoded"
                                          ELSE "decodeFailed",
                                !.back = d.rec, !.decErr = d.err]
    /\ UNCHANGED <<callVars, bk, sharedVars, provVars>>

CodecNext ==
    \/ ConvEncode
    \/ ConvDecode

----------------------------------------------------------------------------
(* Provider.getClient called from several goroutines *)

Goroutines == 1 .. NumGoroutines

\* The pointers successive newClient calls return: each one is a new client.
Instances == <<"client", "client#2", "client#3", "client#4", "client#5">>

\* Everything but p.client, p.clientOnce and the goroutines.
notOnceVars == <<callVars, bk, cvt, cl, other, apiToken, zoneArg, records, pctx,
                 zone, ppc, recordsByKey, recordsWithoutIDs, existingRecordsByKey,
                 setRecords, iter, idx, listing, calls, out, op, appendedRecords,
                 recordMap, deletedRecords, now>>

GoTo(g, where) == gor' = [gor EXCEPT !.pc[g] = where]

OnceMustRunAlways(done) == TRUE

\* sync.Once.doSlow, under the mutex: f runs when done is still 0.
OnceMustRun(done) == ~done

\* provider.go:39, sync.Once.Do: the fast path reads done.
GoOnceDo(g) ==
    /\ gor.pc[g] = "call"
    /\ GoTo(g, IF clientOnce THEN "return" ELSE "lock")
    /\ UNCHANGED <<clientOnce, client, notOnceVars>>

\* sync.Once.doSlow: o.m.Lock()
GoOnceLock(g) ==
    /\ gor.pc[g] = "lock"
    /\ gor.mu = 0
    /\ gor' = [gor EXCEPT !.pc[g] = "slow", !.mu = g]
    /\ UNCHANGED <<clientOnce, client, notOnceVars>>

\* sync.Once.doSlow reads done again and runs f, provider.go:39-45.
GoOnceSlow(g) ==
    /\ gor.pc[g] = "slow"
    /\ IF OnceMustRun(clientOnce)
       THEN IF apiToken = ""
            THEN GoTo(g, "store") /\ client' = client
            ELSE /\ gor' = [gor EXCEPT !.pc[g] = "store", !.built = gor.built + 1]
                 /\ client' = Instances[gor.built + 1]
       ELSE GoTo(g, "unlock") /\ client' = client
    /\ UNCHANGED <<clientOnce, notOnceVars>>

\* sync.Once.doSlow: the deferred o.done.Store(1)
GoOnceStore(g) ==
    /\ gor.pc[g] = "store"
    /\ clientOnce' = TRUE
    /\ GoTo(g, "unlock")
    /\ UNCHANGED <<client, notOnceVars>>

\* sync.Once.doSlow: the deferred o.m.Unlock()
GoOnceUnlock(g) ==
    /\ gor.pc[g] = "unlock"
    /\ gor' = [gor EXCEPT !.pc[g] = "return", !.mu = 0]
    /\ UNCHANGED <<clientOnce, client, notOnceVars>>

\* provider.go:46: return p.client
GoReturn(g) ==
    /\ gor.pc[g] = "return"
    /\ gor' = [gor EXCEPT !.pc[g] = "done", !.got[g] = client]
    /\ UNCHANGED <<clientOnce, client, notOnceVars>>

OnceNext ==
    \/ \E g \in Goroutines : GoOnceDo(g)
    \/ \E g \in Goroutines : GoOnceLock(g)
    \/ \E g \in Goroutines : GoOnceSlow(g)
    \/ \E g \in Goroutines : GoOnceStore(g)
    \/ \E g \in Goroutines : GoOnceUnlock(g)
    \/ \E g \in Goroutines : GoReturn(g)

----------------------------------------------------------------------------
(* Two client.call invocations on one client, in two goroutines *)

\* client.go:49
ClientTimeout == 30

\* client.go:46-52
newClient(token) == [token |-> token, timeout |-> ClientTimeout]

\* The parameters and local variables of the running call (client.go:101-201).
Locals ==
    [marshalOK |-> marshalOK, resultNil |-> resultNil, pc |-> pc,
     attempt |-> attempt, lastErr |-> lastErr, statusCode |-> statusCode,
     backoff |-> backoff, timerFired |-> timerFired, woken |-> woken,
     ctxErr |-> ctxErr, sent |-> sent, hist |-> hist, cancelAt |-> cancelAt,
     ret |-> ret]

\* A scheduler that keeps the loop variable where both calls use it.
ResumeSharedAttempt(l) ==
    /\ marshalOK' = l.marshalOK /\ resultNil' = l.resultNil /\ pc' = l.pc
    /\ attempt' = attempt /\ lastErr' = l.lastErr
    /\ statusCode' = l.statusCode /\ backoff' = l.backoff
    /\ timerFired' = l.timerFired /\ woken' = l.woken /\ ctxErr' = l.ctxErr
    /\ sent' = l.sent /\ hist' = l.hist /\ cancelAt' = l.cancelAt
    /\ ret' = l.ret

\* The goroutine of the other call runs on: its parameters and locals are
\* its own (client.go:101-201 declares every variable inside call).
Resume(l) ==
    /\ marshalOK' = l.marshalOK /\ resultNil' = l.resultNil /\ pc' = l.pc
    /\ attempt' = l.attempt /\ lastErr' = l.lastErr
    /\ statusCode' = l.statusCode /\ backoff' = l.backoff
    /\ timerFired' = l.timerFired /\ woken' = l.woken /\ ctxErr' = l.ctxErr
    /\ sent' = l.sent /\ hist' = l.hist /\ cancelAt' = l.cancelAt
    /\ ret' = l.ret

\* The Go scheduler switches between the two goroutines at any point.
Switch ==
    /\ other.pc \notin {"none", "done"}
    /\ other' = Locals
    /\ Resume(other)
    /\ UNCHANGED <<cfg, cl, bk, cvt, gor, provVars>>

SharedNext ==
    \/ Marshal
    \/ LoopHead
    \/ TimerFire
    \/ CtxCancel
    \/ SelectEnter
    \/ SelectWake
    \/ Attempt
    \/ Switch

----------------------------------------------------------------------------
(* Specifications *)

\* The state of each part while another part is exercised.
IdleCall ==
    [cfg |-> DefaultRetryConfig, pc |-> "idle", err |-> NoError]

IdleBk == [stage |-> "idle"]

IdleConv == [stage |-> "idle"]

IdleCl == [token |-> "", timeout |-> 0]

IdleOther == [pc |-> "none"]

IdleGor == [pc |-> <<>>, got |-> <<>>, mu |-> 0, built |-> 0]

IdleOut == [done |-> FALSE, isNil |-> TRUE, records |-> <<>>, err |-> NoError]

IdlePctx == [hasDeadline |-> FALSE, deadline |-> 0, err |-> ""]

\* One client.call from its entry, for every policy, request and context.
InitCall ==
    /\ cfg \in RetryConfigs
    /\ marshalOK \in BOOLEAN
    /\ resultNil \in BOOLEAN
    /\ ctxErr \in {"", "canceled", "deadline"}
    /\ pc = "marshal"
    /\ attempt = 0
    /\ lastErr = NoError
    /\ statusCode = 0
    /\ backoff = 0
    /\ timerFired = FALSE
    /\ woken = "none"
    /\ sent = 0
    /\ hist = <<>>
    /\ cancelAt = -1
    /\ ret = NoError
    /\ bk = IdleBk
    /\ cvt = IdleConv
    /\ cl = IdleCl
    /\ other = IdleOther
    /\ gor = IdleGor
    /\ apiToken = ""
    /\ clientOnce = FALSE
    /\ client = "nil"
    /\ zoneArg = EmptyStr
    /\ records = <<>>
    /\ pctx = IdlePctx
    /\ zone = EmptyStr
    /\ ppc = "idle"
    /\ recordsByKey = EmptyMap
    /\ recordsWithoutIDs = <<>>
    /\ existingRecordsByKey = EmptyMap
    /\ setRecords = <<>>
    /\ iter = {}
    /\ idx = 1
    /\ listing = <<>>
    /\ calls = <<>>
    /\ out = IdleOut
    /\ op = "none"
    /\ appendedRecords = <<>>
    /\ recordMap = EmptyMap
    /\ deletedRecords = <<>>
    /\ now = 0

SpecCall == InitCall /\ [][CallNext]_vars

\* calculateBackoff at two successive attempt indices of one policy.
InitBackoff ==
    /\ bk \in [stage : {"input"}, config : BackoffConfigs, n : 0 .. MaxAttemptIndex,
               rnd1 : RandDraws, rnd2 : RandDraws]
    /\ cvt = IdleConv
    /\ cl = IdleCl
    /\ other = IdleOther
    /\ gor = IdleGor
    /\ cfg = IdleCall.cfg
    /\ marshalOK = TRUE
    /\ resultNil = TRUE
    /\ ctxErr = ""
    /\ pc = IdleCall.pc
    /\ attempt = 0
    /\ lastErr = NoError
    /\ statusCode = 0
    /\ backoff = 0
    /\ timerFired = FALSE
    /\ woken = "none"
    /\ sent = 0
    /\ hist = <<>>
    /\ cancelAt = -1
    /\ ret = NoError
    /\ apiToken = ""
    /\ clientOnce = FALSE
    /\ client = "nil"
    /\ zoneArg = EmptyStr
    /\ records = <<>>
    /\ pctx = IdlePctx
    /\ zone = EmptyStr
    /\ ppc = "idle"
    /\ recordsByKey = EmptyMap
    /\ recordsWithoutIDs = <<>>
    /\ existingRecordsByKey = EmptyMap
    /\ setRecords = <<>>
    /\ iter = {}
    /\ idx = 1
    /\ listing = <<>>
    /\ calls = <<>>
    /\ out = IdleOut
    /\ op = "none"
    /\ appendedRecords = <<>>
    /\ recordMap = EmptyMap
    /\ deletedRecords = <<>>
    /\ now = 0

BkNext == BkEvaluate

SpecBackoff == InitBackoff /\ [][BkNext]_vars

\* One libdns record to encode and decode again, or one remote record to
\* decode, in the zone as the operations pass it: without a trailing dot.
InitCodec ==
    /\ cvt \in [origin : {"lib"}, stage : {"input"},
                  rec : AddressRecords \cup OtherKindRecords, zone : {ZoneName},
                  nj : {EmptyNj}, encErr : {NoError}, decErr : {NoError},
                  back : {NoRecord}]
              \cup [origin : {"remote"}, stage : {"remote"}, rec : {NoRecord},
                    zone : {ZoneName}, nj : RemoteRecords, encErr : {NoError},
                    decErr : {NoError}, back : {NoRecord}]
    /\ cl = IdleCl
    /\ other = IdleOther
    /\ gor = IdleGor
    /\ bk = IdleBk
    /\ cfg = IdleCall.cfg
    /\ marshalOK = TRUE
    /\ resultNil = TRUE
    /\ ctxErr = ""
    /\ pc = IdleCall.pc
    /\ attempt = 0
    /\ lastErr = NoError
    /\ statusCode = 0
    /\ backoff = 0
    /\ timerFired = FALSE
    /\ woken = "none"
    /\ sent = 0
    /\ hist = <<>>
    /\ cancelAt = -1
    /\ ret = NoError
    /\ apiToken = ""
    /\ clientOnce = FALSE
    /\ client = "nil"
    /\ zoneArg = EmptyStr
    /\ records = <<>>
    /\ pctx = IdlePctx
    /\ zone = EmptyStr
    /\ ppc = "idle"
    /\ recordsByKey = EmptyMap
    /\ recordsWithoutIDs = <<>>
    /\ existingRecordsByKey = EmptyMap
    /\ setRecords = <<>>
    /\ iter = {}
    /\ idx = 1
    /\ listing = <<>>
    /\ calls = <<>>
    /\ out = IdleOut
    /\ op = "none"
    /\ appendedRecords = <<>>
    /\ recordMap = EmptyMap
    /\ deletedRecords = <<>>
    /\ now = 0

SpecCodec == InitCodec /\ [][CodecNext]_vars

\* A Provider as constructed, with or without a token, and NumGoroutines
\* goroutines about to call getClient.
InitOnce ==
    /\ apiToken \in {"", "token"}
    /\ gor = [pc |-> [g \in Goroutines |-> "call"],
              got |-> [g \in Goroutines |-> "nil"], mu |-> 0, built |-> 0]
    /\ bk = IdleBk
    /\ cvt = IdleConv
    /\ cl = IdleCl
    /\ other = IdleOther
    /\ cfg = IdleCall.cfg
    /\ marshalOK = TRUE
    /\ resultNil = TRUE
    /\ ctxErr = ""
    /\ pc = IdleCall.pc
    /\ attempt = 0
    /\ lastErr = NoError
    /\ statusCode = 0
    /\ backoff = 0
    /\ timerFired = FALSE
    /\ woken = "none"
    /\ sent = 0
    /\ hist = <<>>
    /\ cancelAt = -1
    /\ ret = NoError
    /\ clientOnce = FALSE
    /\ client = "nil"
    /\ zoneArg = EmptyStr
    /\ records = <<>>
    /\ pctx = IdlePctx
    /\ zone = EmptyStr
    /\ ppc = "idle"
    /\ recordsByKey = EmptyMap
    /\ recordsWithoutIDs = <<>>
    /\ existingRecordsByKey = EmptyMap
    /\ setRecords = <<>>
    /\ iter = {}
    /\ idx = 1
    /\ listing = <<>>
    /\ calls = <<>>
    /\ out = IdleOut
    /\ op = "none"
    /\ appendedRecords = <<>>
    /\ recordMap = EmptyMap
    /\ deletedRecords = <<>>
    /\ now = 0

SpecOnce == InitOnce /\ [][OnceNext]_vars

\* Two calls about to start on one client built by newClient, under a
\* policy of no retry or one retry; each call has its own params, result
\* and ctx.
InitShared ==
    /\ cfg \in {c \in RetryConfigs : c.MaxRetries \in {0, 1}}
    /\ cl = newClient("token")
    /\ marshalOK = TRUE
    /\ resultNil = FALSE
    /\ ctxErr = ""
    /\ other \in {[marshalOK |-> m, resultNil |-> TRUE, pc |-> "marshal",
                    attempt |-> 0, lastErr |-> NoError, statusCode |-> 0,
                    backoff |-> 0, timerFired |-> FALSE, woken |-> "none",
                    ctxErr |-> "", sent |-> 0, hist |-> <<>>, cancelAt |-> -1,
                    ret |-> NoError] : m \in BOOLEAN}
    /\ pc = "marshal"
    /\ attempt = 0
    /\ lastErr = NoError
    /\ statusCode = 0
    /\ backoff = 0
    /\ timerFired = FALSE
    /\ woken = "none"
    /\ sent = 0
    /\ hist = <<>>
    /\ cancelAt = -1
    /\ ret = NoError
    /\ bk = IdleBk
    /\ cvt = IdleConv
    /\ gor = IdleGor
    /\ apiToken = ""
    /\ clientOnce = FALSE
    /\ client = "nil"
    /\ zoneArg = EmptyStr
    /\ records = <<>>
    /\ pctx = IdlePctx
    /\ zone = EmptyStr
    /\ ppc = "idle"
    /\ recordsByKey = EmptyMap
    /\ recordsWithoutIDs = <<>>
    /\ existingRecordsByKey = EmptyMap
    /\ setRecords = <<>>
    /\ iter = {}
    /\ idx = 1
    /\ listing = <<>>
    /\ calls = <<>>
    /\ out = IdleOut
    /\ op = "none"
    /\ appendedRecords = <<>>
    /\ recordMap = EmptyMap
    /\ deletedRecords = <<>>
    /\ now = 0

SpecShared == InitShared /\ [][SharedNext]_vars

\* One SetRecords from its entry, for every Provider state, zone, batch,
\* context and remote listing.
InitSet ==
    /\ apiToken \in {"", "token"}
    /\ clientOnce \in BOOLEAN
    /\ client \in {"nil", "client"}
    /\ client = "client" => (clientOnce /\ apiToken # "")
    /\ zoneArg \in Zones
    /\ records \in Batches
    /\ pctx \in CallerContexts({45})
    /\ listing \in Listings
    /\ zone = EmptyStr
    /\ ppc = "start"
    /\ recordsByKey = EmptyMap
    /\ recordsWithoutIDs = <<>>
    /\ existingRecordsByKey = EmptyMap
    /\ setRecords = <<>>
    /\ iter = {}
    /\ idx = 1
    /\ calls = <<>>
    /\ out = IdleOut
    /\ op = "Set"
    /\ appendedRecords = <<>>
    /\ recordMap = EmptyMap
    /\ deletedRecords = <<>>
    /\ now = 0
    /\ bk = IdleBk
    /\ cvt = IdleConv
    /\ cl = IdleCl
    /\ other = IdleOther
    /\ gor = IdleGor
    /\ cfg = IdleCall.cfg
    /\ marshalOK = TRUE
    /\ resultNil = TRUE
    /\ ctxErr = ""
    /\ pc = IdleCall.pc
    /\ attempt = 0
    /\ lastErr = NoError
    /\ statusCode = 0
    /\ backoff = 0
    /\ timerFired = FALSE
    /\ woken = "none"
    /\ sent = 0
    /\ hist = <<>>
    /\ cancelAt = -1
    /\ ret = NoError

SpecSet == InitSet /\ [][SetNext]_vars

\* One Provider operation from its entry, for every operation, Provider
\* state, zone, batch, context and remote listing.
InitProvider ==
    /\ apiToken \in {"", "token"}
    /\ clientOnce \in BOOLEAN
    /\ client \in {"nil", "client"}
    /\ client = "client" => clientOnce
    /\ zoneArg \in Zones
    /\ records \in Batches
    /\ pctx \in CallerContexts({45})
    /\ listing \in Listings
    /\ zone = EmptyStr
    /\ ppc = "start"
    /\ recordsByKey = EmptyMap
    /\ recordsWithoutIDs = <<>>
    /\ existingRecordsByKey = EmptyMap
    /\ setRecords = <<>>
    /\ iter = {}
    /\ idx = 1
    /\ calls = <<>>
    /\ out = IdleOut
    /\ op \in {"Get", "Append", "Set", "Delete"}
    /\ appendedRecords = <<>>
    /\ recordMap = EmptyMap
    /\ deletedRecords = <<>>
    /\ now = 0
    /\ bk = IdleBk
    /\ cvt = IdleConv
    /\ cl = IdleCl
    /\ other = IdleOther
    /\ gor = IdleGor
    /\ cfg = IdleCall.cfg
    /\ marshalOK = TRUE
    /\ resultNil = TRUE
    /\ ctxErr = ""
    /\ pc = IdleCall.pc
    /\ attempt = 0
    /\ lastErr = NoError
    /\ statusCode = 0
    /\ backoff = 0
    /\ timerFired = FALSE
    /\ woken = "none"
    /\ sent = 0
    /\ hist = <<>>
    /\ cancelAt = -1
    /\ ret = NoError

SpecProvider == InitProvider /\ [][ProviderNext]_vars

\* A small set of records: one with an identity token, one without.
FewRecords == {r \in DesiredRecords : r.kind = "Address" /\ RRName(r) = <<"test">>}

\* One SetRecords or DeleteRecords of a configured Provider from its entry,
\* with the clock running, for every deadline of the caller's context.
InitTimed ==
    /\ apiToken = "token"
    /\ clientOnce \in BOOLEAN
    /\ client = IF clientOnce THEN "client" ELSE "nil"
    /\ zoneArg = ZoneName
    /\ records \in SeqsUpTo(FewRecords, MaxBatch)
    /\ pctx \in CallerContexts(CallerDeadlines)
    /\ listing \in {<<>>, <<RemoteA1>>}
    /\ zone = EmptyStr
    /\ ppc = "start"
    /\ recordsByKey = EmptyMap
    /\ recordsWithoutIDs = <<>>
    /\ existingRecordsByKey = EmptyMap
    /\ setRecords = <<>>
    /\ iter = {}
    /\ idx = 1
    /\ calls = <<>>
    /\ out = IdleOut
    /\ op \in {"Set", "Delete"}
    /\ appendedRecords = <<>>
    /\ recordMap = EmptyMap
    /\ deletedRecords = <<>>
    /\ now = 0
    /\ bk = IdleBk
    /\ cvt = IdleConv
    /\ cl = IdleCl
    /\ other = IdleOther
    /\ gor = IdleGor
    /\ cfg = IdleCall.cfg
    /\ marshalOK = TRUE
    /\ resultNil = TRUE
    /\ ctxErr = ""
    /\ pc = IdleCall.pc
    /\ attempt = 0
    /\ lastErr = NoError
    /\ statusCode = 0
    /\ backoff = 0
    /\ timerFired = FALSE
    /\ woken = "none"
    /\ sent = 0
    /\ hist = <<>>
    /\ cancelAt = -1
    /\ ret = NoError

\* One operation of a configured Provider from its entry, for every zone
\* string.
InitZones ==
    /\ apiToken = "token"
    /\ clientOnce \in BOOLEAN
    /\ client = IF clientOnce THEN "client" ELSE "nil"
    /\ zoneArg \in ZoneStrings
    /\ records \in SeqsUpTo(FewRecords, MaxBatch)
    /\ pctx \in CallerContexts({45})
    /\ listing \in {<<>>, <<RemoteA1>>, <<RemoteOwn>>}
    /\ zone = EmptyStr
    /\ ppc = "start"
    /\ recordsByKey = EmptyMap
    /\ recordsWithoutIDs = <<>>
    /\ existingRecordsByKey = EmptyMap
    /\ setRecords = <<>>
    /\ iter = {}
    /\ idx = 1
    /\ calls = <<>>
    /\ out = IdleOut
    /\ op \in {"Get", "Append", "Set", "Delete"}
    /\ appendedRecords = <<>>
    /\ recordMap = EmptyMap
    /\ deletedRecords = <<>>
    /\ now = 0
    /\ bk = IdleBk
    /\ cvt = IdleConv
    /\ cl = IdleCl
    /\ other = IdleOther
    /\ gor = IdleGor
    /\ cfg = IdleCall.cfg
    /\ marshalOK = TRUE
    /\ resultNil = TRUE
    /\ ctxErr = ""
    /\ pc = IdleCall.pc
    /\ attempt = 0
    /\ lastErr = NoError
    /\ statusCode = 0
    /\ backoff = 0
    /\ timerFired = FALSE
    /\ woken = "none"
    /\ sent = 0
    /\ hist = <<>>
    /\ cancelAt = -1
    /\ ret = NoError

SpecZones == InitZones /\ [][ProviderNext]_vars

\* One client.call from its entry, or one operation of a configured
\* Provider from its entry.
InitLive ==
    \/ /\ cfg \in RetryConfigs
       /\ marshalOK \in BOOLEAN
       /\ resultNil \in BOOLEAN
       /\ ctxErr \in {"", "canceled", "deadline"}
       /\ pc = "marshal"
       /\ attempt = 0
       /\ lastErr = NoError
       /\ statusCode = 0
       /\ backoff = 0
       /\ timerFired = FALSE
       /\ woken = "none"
       /\ sent = 0
       /\ hist = <<>>
       /\ cancelAt = -1
       /\ ret = NoError
       /\ bk = IdleBk
       /\ cvt = IdleConv
       /\ cl = IdleCl
       /\ other = IdleOther
       /\ gor = IdleGor
       /\ apiToken = ""
       /\ clientOnce = FALSE
       /\ client = "nil"
       /\ zoneArg = EmptyStr
       /\ records = <<>>
       /\ pctx = IdlePctx
       /\ zone = EmptyStr
       /\ ppc = "idle"
       /\ recordsByKey = EmptyMap
       /\ recordsWithoutIDs = <<>>
       /\ existingRecordsByKey = EmptyMap
       /\ setRecords = <<>>
       /\ iter = {}
       /\ idx = 1
       /\ listing = <<>>
       /\ calls = <<>>
       /\ out = IdleOut
       /\ op = "none"
       /\ appendedRecords = <<>>
       /\ recordMap = EmptyMap
       /\ deletedRecords = <<>>
       /\ now = 0
    \/ /\ apiToken = "token"
       /\ clientOnce \in BOOLEAN
       /\ client = IF clientOnce THEN "client" ELSE "nil"
       /\ zoneArg = ZoneName
       /\ records \in SeqsUpTo(FewRecords, MaxBatch)
       /\ pctx \in CallerContexts({45})
       /\ listing \in {<<>>, <<RemoteA1>>, <<RemoteOwn>>}
       /\ zone = EmptyStr
       /\ ppc = "start"
       /\ recordsByKey = EmptyMap
       /\ recordsWithoutIDs = <<>>
       /\ existingRecordsByKey = EmptyMap
       /\ setRecords = <<>>
       /\ iter = {}
       /\ idx = 1
       /\ calls = <<>>
       /\ out = IdleOut
       /\ op \in {"Get", "Append", "Set", "Delete"}
       /\ appendedRecords = <<>>
       /\ recordMap = EmptyMap
       /\ deletedRecords = <<>>
       /\ now = 0
       /\ bk = IdleBk
       /\ cvt = IdleConv
       /\ cl = IdleCl
       /\ other = IdleOther
       /\ gor = IdleGor
       /\ cfg = IdleCall.cfg
       /\ marshalOK = TRUE
       /\ resultNil = TRUE
       /\ ctxErr = ""
       /\ pc = IdleCall.pc
       /\ attempt = 0
       /\ lastErr = NoError
       /\ statusCode = 0
       /\ backoff = 0
       /\ timerFired = FALSE
       /\ woken = "none"
       /\ sent = 0
       /\ hist = <<>>
       /\ cancelAt = -1
       /\ ret = NoError

\* The steps of client.call and of the four operations.
LiveNext ==
    \/ Marshal
    \/ LoopHead
    \/ TimerFire
    \/ CtxCancel
    \/ SelectEnter
    \/ SelectWake
    \/ Attempt
    \/ GetStart
    \/ GetList
    \/ AppendStart
    \/ AppendOne
    \/ AppendReturn
    \/ SetStart
    \/ SetList
    \/ SetWithID
    \/ SetWithIDsDone
    \/ SetWithoutID
    \/ SetReturn
    \/ DeleteStart
    \/ DeleteList
    \/ DeleteOne
    \/ DeleteReturn
    \/ ParentCancel

\* The goroutine that runs client.call is scheduled while it can take a
\* step, every delivery attempt completes (httpClient.Do and io.ReadAll
\* return, client.go:146-160) and the runtime delivers every timer
\* (client.go:125-132).  The caller need never cancel the context.
CallFairness ==
    /\ WF_vars(Marshal)
    /\ WF_vars(LoopHead)
    /\ WF_vars(TimerFire)
    /\ WF_vars(SelectEnter)
    /\ WF_vars(SelectWake)
    /\ WF_vars(Attempt)

\* The goroutine that runs the operation is scheduled while it can take a
\* step, and every client.call it makes returns.
ProviderFairness ==
    /\ WF_vars(GetStart)
    /\ WF_vars(GetList)
    /\ WF_vars(AppendStart)
    /\ WF_vars(AppendOne)
    /\ WF_vars(AppendReturn)
    /\ WF_vars(SetStart)
    /\ WF_vars(SetList)
    /\ WF_vars(SetWithID)
    /\ WF_vars(SetWithIDsDone)
    /\ WF_vars(SetWithoutID)
    /\ WF_vars(SetReturn)
    /\ WF_vars(DeleteStart)
    /\ WF_vars(DeleteList)
    /\ WF_vars(DeleteOne)
    /\ WF_vars(DeleteReturn)

SpecLive == InitLive /\ [][LiveNext]_vars /\ CallFairness /\ ProviderFairness

TimedNext ==
    \/ SetStart
    \/ SetList
    \/ SetWithID
    \/ SetWithIDsDone
    \/ SetWithoutID
    \/ SetReturn
    \/ DeleteStart
    \/ DeleteList
    \/ DeleteOne
    \/ DeleteReturn
    \/ ParentCancel
    \/ TimePasses

SpecTimed == InitTimed /\ [][TimedNext]_vars

----------------------------------------------------------------------------
(* Classification of attempt outcomes, as the claims state it *)

IsResp(o) == o[1] = "resp"

RetryableFailure(o) ==
    \/ o[1] \in {"doerr", "readerr"}
    \/ IsResp(o) /\ (o[2] >= 500 \/ o[2] = 429)
    \/ IsResp(o) /\ o[2] < 400 /\ o[3][1] = "badjson"

TerminalStatus(o) ==
    IsResp(o) /\ o[2] >= 400 /\ ~(o[2] >= 500 \/ o[2] = 429)

ApplicationError(o) ==
    IsResp(o) /\ o[2] < 400 /\ o[3][1] = "apierr"

Succeeds(o) ==
    IsResp(o) /\ o[2] < 400 /\ (o[3][1] = "ok" \/ (o[3][1] = "badresult" /\ resultNil))

FailureOf(o) ==
    IF o[1] = "doerr" THEN <<"request">>
    ELSE IF o[1] = "readerr" THEN <<"read">>
    ELSE IF o[2] >= 400 THEN <<"http", o[2]>>
    ELSE <<"unmarshalResponse">>

AllRetryable(h) == \A i \in 1 .. Len(h) : RetryableFailure(h[i])

Front(h) == SubSeq(h, 1, Len(h) - 1)

----------------------------------------------------------------------------
(* Claims about client.call and calculateBackoff *)

\* C1: a call whose request serializes, under a policy with MaxRetries >= 0,
\* never makes more than MaxRetries + 1 delivery attempts and has made at
\* least one when it returns.
C1_AttemptsBetweenOneAndMaxRetriesPlusOne ==
    (marshalOK /\ cfg.MaxRetries >= 0) =>
        /\ sent <= cfg.MaxRetries + 1
        /\ pc = "done" => sent >= 1

C1_Witness ==
    /\ pc = "done" /\ marshalOK
    /\ cfg.MaxRetries >= 2
    /\ sent = cfg.MaxRetries + 1

\* C2: with the context never cancelled, a call whose first k attempts ended
\* in a retryable failure (k <= MaxRetries) does not return before attempt
\* k+1, and when attempt k+1 succeeds it returns nil having made exactly k+1
\* attempts.
C2_SuccessAfterRetryableFailures ==
    (pc = "done" /\ ctxErr = "" /\ marshalOK /\ cfg.MaxRetries >= 0) =>
        /\ AllRetryable(hist) => Len(hist) = cfg.MaxRetries + 1
        /\ (Len(hist) >= 1 /\ AllRetryable(Front(hist)) /\ Succeeds(hist[Len(hist)])) =>
              (ret = NoError /\ sent = Len(hist))

C2_Witness ==
    /\ pc = "done" /\ ctxErr = "" /\ ret = NoError
    /\ Len(hist) = 3 /\ sent = 3
    /\ AllRetryable(Front(hist)) /\ Succeeds(hist[3])

\* C3: every attempt that is followed by another attempt ended in a
\* transport/read failure, a status >= 500, status 429 or an unparsable
\* envelope; isRetryable(err, status) is true exactly for err # nil,
\* status >= 500 or status = 429; any other status >= 400 ends the call with
\* that attempt as the last one.
C3_OnlyRetryableFailuresAreRetried ==
    /\ AllRetryable(Front(hist))
    /\ (Len(hist) >= 1 /\ TerminalStatus(hist[Len(hist)])) =>
          (pc = "done" /\ ret = <<"http", hist[Len(hist)][2]>>)
    /\ \A s \in 0 .. 599 :
          /\ isRetryable(NoError, s) <=> (s >= 500 \/ s = 429)
          /\ isRetryable(<<"request">>, s)

C3_Witness ==
    /\ pc = "done" /\ Len(hist) = 2
    /\ hist[1] = <<"resp", 429, <<"unread">>>>
    /\ hist[2] = <<"resp", 404, <<"unread">>>>
    /\ ret = <<"http", 404>>

\* C4: an attempt that receives a parsed envelope carrying an application
\* error is the last attempt of the call, which returns an error carrying
\* the remote code and message, however many retries remain.
C4_ApplicationErrorIsTerminal ==
    \A i \in 1 .. Len(hist) :
        ApplicationError(hist[i]) =>
            /\ i = Len(hist)
            /\ pc = "done"
            /\ ret = <<"api", hist[i][3][2], hist[i][3][3]>>

C4_Witness ==
    /\ pc = "done" /\ Len(hist) = 2 /\ cfg.MaxRetries >= 2
    /\ ApplicationError(hist[2])
    /\ ret = <<"api", 404, "not found">>

\* C5: when all MaxRetries + 1 attempts ended in a retryable failure and the
\* context was not cancelled, the call returns the retries-exhausted error
\* wrapping the failure of the last attempt.
C5_ExhaustedWrapsLastFailure ==
    (pc = "done" /\ ctxErr = "" /\ marshalOK /\ cfg.MaxRetries >= 0
       /\ Len(hist) = cfg.MaxRetries + 1 /\ AllRetryable(hist)) =>
        ret = <<"maxRetries", FailureOf(hist[Len(hist)])>>

C5_Witness ==
    /\ pc = "done" /\ ctxErr = "" /\ cfg.MaxRetries = 2
    /\ Len(hist) = 3 /\ AllRetryable(hist)
    /\ hist[1] = <<"doerr">> /\ hist[3] = <<"resp", 503, <<"unread">>>>
    /\ ret = <<"maxRetries", <<"http", 503>>>>

\* C6: once the context is cancelled while the call is blocked in the
\* backoff select, the call makes no further attempt: it can only resume in
\* the ctx.Done() case and return the cancellation error.
C6_CancelDuringBackoffAborts ==
    cancelAt # -1 =>
        /\ sent = cancelAt
        /\ pc \in {"wait", "done"}
        /\ pc = "wait" => woken = "ctx"
        /\ pc = "done" => ret = <<"ctxBackoff", ctxErr>>

C6_Witness ==
    /\ cancelAt >= 1 /\ pc = "done"
    /\ ret = <<"ctxBackoff", "deadline">>
    /\ sent <= cfg.MaxRetries

\* C7: when the request does not serialize, the call returns the marshaling
\* error and makes no delivery attempt.
C7_MarshalErrorMakesNoAttempt ==
    ~marshalOK =>
        /\ sent = 0
        /\ pc \in {"marshal", "done"}
        /\ pc = "done" => ret = <<"marshal">>

C7_Witness ==
    pc = "done" /\ ~marshalOK /\ ret = <<"marshal">> /\ cfg.MaxRetries >= 1

\* C8: for a policy with 0 <= RandomFactor <= 1 (and non-negative delays),
\* every attempt index n and every pair of jitter draws, calculateBackoff at
\* n is >= 0, <= MaxDelay, and <= calculateBackoff at n+1.
C8_BackoffBoundedAndNonDecreasing ==
    (bk.stage = "done" /\ bk.config.RandomFactor >= 0
       /\ bk.config.RandomFactor <= FactorDen) =>
        /\ 0 <= bk.d1 /\ bk.d1 <= bk.config.MaxDelay
        /\ 0 <= bk.d2 /\ bk.d2 <= bk.config.MaxDelay
        /\ bk.d1 <= bk.d2

C8_Witness ==
    /\ bk.stage = "done" /\ bk.config.RandomFactor = FactorDen
    /\ bk.n >= 1 /\ bk.rnd1 = RandDen - 1 /\ bk.rnd2 = 0
    /\ bk.d1 > bk.config.BaseDelay /\ bk.d1 < bk.d2 /\ bk.d2 < bk.config.MaxDelay

----------------------------------------------------------------------------
(* Claims about Provider.SetRecords *)

\* The record carries an identity token: its provider data is a string map
\* whose "id" is not empty.
CarriesToken(r) == r.pd.shape = "map" /\ r.pd.id # EmptyStr

AllCarryToken == records # <<>> /\ \A i \in DOMAIN records : CarriesToken(records[i])

InputTokens == {records[i].pd.id : i \in DOMAIN records}

EditIDs == {calls[i].req.ID : i \in {j \in DOMAIN calls : calls[j].method = "edit-record"}}

\* C9: when every input record of SetRecords carries an identity token,
\* SetRecords issues no list-records and no add-record call, and, when it
\* returns without error, it has issued one edit-record call per input
\* record, under that record's own token.  (A failed call ends the
\* operation, so the count is asked only of a call that succeeded.)  The
\* code breaks this for a ServiceBinding, whose token extractRecordID does
\* not read, and for two records under one token.
C9_AllTokensOnlyEdits ==
    (ppc # "idle" /\ AllCarryToken) =>
        /\ CountCalls(calls, "list-records") = 0
        /\ CountCalls(calls, "add-record") = 0
        /\ (out.done /\ out.err = NoError) =>
              /\ CountCalls(calls, "edit-record") = Len(records)
              /\ EditIDs = InputTokens

\* The record's zone-relative name and type are those of a listed record.
SharedByListed(r) ==
    \E i \in DOMAIN listing :
        /\ listing[i].Name = RelativeName(RRName(r), ZoneName \o <<Dot>>)
        /\ listing[i].Type = RRType(r)

\* An input record without a token that no listed record matches.
Fresh(r) == r.kind # "none" /\ ~CarriesToken(r) /\ ~SharedByListed(r)

SingleFresh == Len(records) = 1 /\ Fresh(records[1])

\* The types njallaRecordToLibdns decodes into a kind with provider data.
TypedTypes == {"A", "AAAA", "CNAME", "TXT", "MX", "SRV", "HTTPS", "SVCB"}

FreshIsAddedNeverEdited ==
    /\ \A i \in DOMAIN calls :
          Fresh(calls[i].rec) => calls[i].method = "add-record"
    /\ (out.done /\ out.err = NoError) =>
          \A j \in DOMAIN records :
              Fresh(records[j]) =>
                  \E i \in DOMAIN calls :
                      calls[i].method = "add-record" /\ calls[i].rec = records[j]

SingleFreshCounts ==
    /\ CountCalls(calls, "list-records") = 1
    /\ CountCalls(calls, "add-record") = 1
    /\ CountCalls(calls, "edit-record") = 0
    /\ Len(out.records) = 1

\* C10 as stated: an input record without a token that no listed record
\* matches gets an add-record call and no edit-record call; a single such
\* input makes exactly one list-records, one add-record and no edit-record
\* call, and the returned record carries the token of the create response.
\* (Asked of a SetRecords that returned without error.)
C10_FreshRecordReturnsToken ==
    /\ FreshIsAddedNeverEdited
    /\ (out.done /\ out.err = NoError /\ SingleFresh) =>
          /\ SingleFreshCounts
          /\ out.records[1].pd = MapPD(NewID)

\* C10: an input record without a token that no listed record matches never
\* gets an edit-record call, and gets an add-record call whenever SetRecords
\* returns without error; a single such input then makes exactly one
\* list-records, one add-record and no edit-record call, and the returned
\* record carries the token of the create response unless its type decodes
\* into the generic RR kind, which has no provider data.
C10_FreshRecordIsAdded ==
    /\ FreshIsAddedNeverEdited
    /\ (out.done /\ out.err = NoError /\ SingleFresh) =>
          /\ SingleFreshCounts
          /\ out.records[1].pd =
                IF RRType(records[1]) \in TypedTypes THEN MapPD(NewID) ELSE NoPD

C10_Witness ==
    /\ out.done
    /\ out.err = NoError
    /\ SingleFresh
    /\ RRType(records[1]) \in TypedTypes
    /\ CountCalls(calls, "add-record") = 1
    /\ out.records[1].pd = MapPD(NewID)

\* The identity tokens of the listed records whose (zone-relative name,
\* type) is that of the record: its reconciliation key matches them.
MatchedTokens(r) ==
    {listing[i].ID : i \in {j \in DOMAIN listing :
        /\ listing[j].Name = RelativeName(RRName(r), ZoneName \o <<Dot>>)
        /\ listing[j].Type = RRType(r)
        /\ listing[j].ID # EmptyStr}}

\* What the record encodes to: its type, zone-relative name, content and
\* TTL in whole seconds.
Encoded(r) == libdnsRecordToNjalla(r, ZoneName).rec

IsEditFor(c, r) ==
    /\ c.method = "edit-record"
    /\ c.rec = r
    /\ c.req.ID \in MatchedTokens(r)
    /\ c.req.Type = Encoded(r).Type
    /\ c.req.Name = Encoded(r).Name
    /\ c.req.Content = Encoded(r).Content
    /\ c.req.TTL = Encoded(r).TTL

\* C11: for an input record of SetRecords without a token whose
\* reconciliation key, (zone-relative name, type), matches a listed record,
\* SetRecords issues an edit-record call under the matched record's token
\* with the type, name, content and TTL of the desired record, and no
\* add-record call.  (Asked of a SetRecords that returned without error.)
\* The code keys the desired record by its name as given, so a name in
\* absolute form matches nothing and the record is added.
C11_MatchedRecordIsEdited ==
    (op = "Set" /\ out.done /\ out.err = NoError) =>
        \A j \in DOMAIN records :
            (~CarriesToken(records[j]) /\ MatchedTokens(records[j]) # {}) =>
                /\ \E i \in DOMAIN calls : IsEditFor(calls[i], records[j])
                /\ \A i \in DOMAIN calls :
                      ~(calls[i].method = "add-record" /\ calls[i].rec = records[j])

\* The results the operation had accumulated when it returned.
Accumulated ==
    CASE op = "Append" -> appendedRecords
      [] op = "Set"    -> setRecords
      [] op = "Delete" -> deletedRecords
      [] OTHER         -> <<>>

\* C12: Append, Set and Delete, when they return an error, return every
\* result accumulated for the items that succeeded before the failing one:
\* the returned slice is never shorter than the number of items completed.
\* SetRecords returns nil when a record fails to encode or its match has no
\* identity, whatever it had accumulated.
C12_PartialResultsKept ==
    (op \in {"Append", "Set", "Delete"} /\ out.done /\ out.err # NoError) =>
        /\ Len(out.records) >= Len(Accumulated)
        /\ Accumulated # <<>> => ~out.isNil

\* The operation failed one of the checks it begins with.
ConfigError == out.err \in {<<"tokenRequired">>, <<"clientNotInitialized">>}

\* The record that the create response of a call decodes to.
DecodedResponse(c) == njallaRecordToLibdns(Stored(NewID, c.req)).rec

\* C13: AppendRecords processes its input one record at a time in input
\* order: the i-th call is the add-record call for input[i] and result[i]
\* is its decoded response; on the first failure it returns the results of
\* the records before the failing one with the error, and has issued no
\* add-record call for a later record.
C13_AppendInOrder ==
    op = "Append" =>
        /\ Len(calls) <= Len(records)
        /\ \A i \in DOMAIN calls :
              calls[i].method = "add-record" /\ calls[i].rec = records[i]
        /\ Len(appendedRecords) <= Len(calls)
        /\ \A i \in DOMAIN appendedRecords :
              appendedRecords[i] = DecodedResponse(calls[i])
        /\ (out.done /\ ~ConfigError) =>
              /\ out.records = appendedRecords
              /\ ~out.isNil
              /\ out.err = NoError => Len(out.records) = Len(records)
              /\ out.err # NoError =>
                    /\ Len(out.records) < Len(records)
                    /\ Len(calls) <= Len(out.records) + 1

C13_Witness ==
    /\ op = "Append"
    /\ out.done
    /\ out.err # NoError
    /\ Len(records) >= 2
    /\ Len(out.records) = 1
    /\ Len(calls) = 2
    /\ out.records[1] = DecodedResponse(calls[1])

Undecodables == {i \in DOMAIN listing : njallaRecordToLibdns(listing[i]).err # NoError}

\* C14: GetRecords is all-or-nothing: it issues exactly one list-records
\* call; if the call fails or any listed record fails to decode it returns
\* an error and no records at all; otherwise it returns one decoded record
\* per listed record, in the order listed.
C14_GetAllOrNothing ==
    (op = "Get" /\ out.done /\ ~ConfigError) =>
        /\ Len(calls) = 1
        /\ calls[1].method = "list-records"
        /\ out.err # NoError => (out.records = <<>> /\ out.isNil)
        /\ Undecodables # {} => out.err # NoError
        /\ out.err = NoError =>
              /\ Len(out.records) = Len(listing)
              /\ \A i \in DOMAIN listing :
                    out.records[i] = njallaRecordToLibdns(listing[i]).rec

C14_Witness ==
    /\ op = "Get"
    /\ out.done
    /\ Len(calls) = 1
    /\ Undecodables # {}
    /\ Len(listing) > Cardinality(Undecodables)
    /\ out.err # <<"list">>
    /\ out.err # NoError
    /\ out.records = <<>>

\* SetRecords matched the record to a listed record from which no identity
\* token can be extracted.
TokenlessMatch(r) ==
    /\ Probe(r) \in DOMAIN existingRecordsByKey
    /\ extractRecordID(existingRecordsByKey[Probe(r)]) = EmptyStr

WriteCalls == CountCalls(calls, "edit-record") + CountCalls(calls, "add-record")

\* C15: when SetRecords matches a desired record without identity to a
\* listed record from which no identity token can be extracted, it aborts
\* with the "missing ID for existing record" error and issues neither an
\* edit-record nor an add-record call for that record or any later one.
C15_MissingIDAborts ==
    op = "Set" =>
        /\ \A i \in DOMAIN calls :
              (calls[i].method # "list-records" /\ extractRecordID(calls[i].rec) = EmptyStr)
                  => ~TokenlessMatch(calls[i].rec)
        /\ ppc \in {"withoutIDs", "done"} =>
              \A j \in DOMAIN recordsWithoutIDs :
                  (/\ j < idx
                   /\ TokenlessMatch(recordsWithoutIDs[j])
                   /\ libdnsRecordToNjalla(recordsWithoutIDs[j], zone).err = NoError)
                      => (out.done /\ out.err = <<"missingID">> /\ j = idx - 1)
        /\ out.err = <<"missingID">> =>
              /\ out.done
              /\ TokenlessMatch(recordsWithoutIDs[idx - 1])
              /\ WriteCalls = Cardinality(DOMAIN recordsByKey) + idx - 2

C15_Witness ==
    /\ op = "Set"
    /\ out.done
    /\ out.err = <<"missingID">>
    /\ Len(recordsWithoutIDs) >= 2
    /\ idx = 2
    /\ WriteCalls = 0

ErrKind(e) == IF e = NoError THEN "" ELSE e[1]

AllFresh == records # <<>> /\ \A j \in DOMAIN records : Fresh(records[j])

\* C16: in DeleteRecords an input record without a token whose (name, type)
\* matches no listed record is silently skipped: no remove-record call is
\* issued for it, it is absent from the returned slice, and it causes no
\* error (a batch of such records, once listed, returns an empty slice and
\* no error after zero remove-record calls).
C16_UnmatchedIsSkipped ==
    op = "Delete" =>
        /\ \A i \in DOMAIN calls :
              calls[i].method = "remove-record" => ~Fresh(calls[i].rec)
        /\ \A i \in DOMAIN deletedRecords : ~Fresh(deletedRecords[i])
        /\ \A i \in DOMAIN out.records : ~Fresh(out.records[i])
        /\ (out.done /\ AllFresh /\ ~ConfigError /\ ErrKind(out.err) # "getExisting") =>
              /\ out.err = NoError
              /\ out.records = <<>>
              /\ CountCalls(calls, "remove-record") = 0
              /\ CountCalls(calls, "list-records") = 1

C16_Witness ==
    /\ op = "Delete"
    /\ out.done
    /\ AllFresh
    /\ listing # <<>>
    /\ out.err = NoError
    /\ out.records = <<>>
    /\ CountCalls(calls, "list-records") = 1

\* The tokens of the listed records found under the record's name as the
\* caller gave it, and its type: the match of the List step.
ListedTokens(r) ==
    {listing[i].ID : i \in {j \in DOMAIN listing :
        /\ listing[j].Name = RRName(r)
        /\ listing[j].Type = RRType(r)
        /\ listing[j].ID # EmptyStr}}

\* The tokens whose removal removes the record: its own, or without one
\* those of its match.
TargetTokens(r) == IF CarriesToken(r) THEN {r.pd.id} ELSE ListedTokens(r)

RemoveCalls == {i \in DOMAIN calls : calls[i].method = "remove-record"}

\* Every remove-record call but a last one that failed has succeeded.
Succeeded(i) ==
    i \in RemoveCalls /\ (i < Len(calls) \/ ErrKind(out.err) # "deleteRecord")

SucceededIDs == {calls[i].req.ID : i \in {j \in RemoveCalls : Succeeded(j)}}

DeleteRan == op = "Delete" /\ out.done /\ ~ConfigError /\ ErrKind(out.err) # "getExisting"

\* C17 as stated: the slice DeleteRecords returns holds exactly the input
\* records for which a remove-record call succeeded, each as the value the
\* caller passed.
C17_ReturnsExactlyRemoved ==
    DeleteRan =>
        {out.records[i] : i \in DOMAIN out.records} =
            {records[j] : j \in {n \in DOMAIN records :
                TargetTokens(records[n]) \cap SucceededIDs # {}}}

\* The position in calls of the i-th remove-record call.
RECURSIVE NthRemove(_, _)
NthRemove(i, from) ==
    IF from > Len(calls) THEN 0
    ELSE IF calls[from].method = "remove-record"
         THEN (IF i = 1 THEN from ELSE NthRemove(i - 1, from + 1))
         ELSE NthRemove(i, from + 1)

\* C17: the slice DeleteRecords returns holds one record per remove-record
\* call that succeeded, in the order of the calls: an input record, as the
\* value the caller passed, whose own token the call removed or, when it has
\* none, whose match in the listing the call removed; no token is removed
\* twice, and input records that lead to one token are returned as one.
C17_ReturnsOnePerRemoval ==
    DeleteRan =>
        /\ Len(out.records) = Cardinality(SucceededIDs)
        /\ Cardinality(RemoveCalls) = Cardinality({calls[i].req.ID : i \in RemoveCalls})
        /\ \A i \in DOMAIN out.records :
              /\ \E j \in DOMAIN records : records[j] = out.records[i]
              /\ Succeeded(NthRemove(i, 1))
              /\ calls[NthRemove(i, 1)].req.ID \in TargetTokens(out.records[i])

C17_Witness ==
    /\ DeleteRan
    /\ out.err = NoError
    /\ Len(out.records) = 2
    /\ \E i \in DOMAIN out.records :
          /\ ~CarriesToken(out.records[i])
          /\ calls[NthRemove(i, 1)].req.ID \in ListedTokens(out.records[i])
    /\ \E i \in DOMAIN out.records : CarriesToken(out.records[i])

\* C18: in DeleteRecords every input record carrying a non-empty identity
\* token is a deletion candidate directly: when no remove-record call fails
\* and the context is not cancelled, a remove-record call with that token is
\* issued and the record is in the returned slice, for every batch, batches
\* with repeated tokens included.  The code breaks this for a
\* ServiceBinding, whose token extractRecordID does not read, and returns
\* one record only for each repeated token.
C18_TokenRecordsAreRemoved ==
    (op = "Delete" /\ out.done /\ out.err = NoError) =>
        \A j \in DOMAIN records :
            CarriesToken(records[j]) =>
                /\ \E i \in RemoveCalls : calls[i].req.ID = records[j].pd.id
                /\ \E i \in DOMAIN out.records : out.records[i] = records[j]

\* This step of SetRecords or DeleteRecords issues a per-record call.
PerRecordCall ==
    /\ op \in {"Set", "Delete"}
    /\ Len(calls') = Len(calls) + 1
    /\ calls'[Len(calls')].method \in {"edit-record", "add-record", "remove-record"}

\* The errors with which the remote call itself fails.
CallErrors == {"updateRecord", "update", "add", "deleteRecord"}

\* C19 as stated: after every per-record remote call of SetRecords and
\* DeleteRecords the parent context is checked: when it is cancelled or past
\* its deadline the operation issues no call for a remaining record and
\* returns the accumulated results with the context's error.  (A call that
\* itself failed may return its own error, which can wrap the context's.)
C19_ContextCheckedAfterEveryCall ==
    [][ /\ out.done => calls' = calls
        /\ (PerRecordCall /\ pctx'.err # "") =>
              /\ out'.done
              /\ out'.records = Accumulated'
              /\ ErrKind(out'.err) \notin CallErrors =>
                    out'.err = <<"ctx", pctx'.err>> ]_vars

\* C19: after every per-record remote call of SetRecords and DeleteRecords
\* whose result was accumulated (the call succeeded and, in SetRecords, its
\* response decoded) the parent context is checked: when it is cancelled or
\* past its deadline the operation issues no call for a remaining record and
\* returns the accumulated results with the context's error.  A call that
\* fails, or a response that does not decode, ends the operation with that
\* error and the accumulated results, the context not being consulted.
C19_ContextCheckedAfterAccumulation ==
    [][ /\ out.done => calls' = calls
        /\ (PerRecordCall /\ pctx'.err # "") =>
              /\ out'.done
              /\ out'.records = Accumulated'
              /\ out'.err # NoError
              /\ Len(Accumulated') > Len(Accumulated) =>
                    out'.err = <<"ctx", pctx'.err>> ]_vars

C19_Witness ==
    /\ op \in {"Set", "Delete"}
    /\ out.done
    /\ ErrKind(out.err) = "ctx"
    /\ out.err[2] = pctx.err
    /\ Len(out.records) = 1
    /\ Len(records) = 2
    /\ iter # {} \/ idx <= Len(recordsWithoutIDs)

\* C20: with an empty APIToken each of GetRecords, AppendRecords,
\* SetRecords and DeleteRecords returns the "API token is required" error
\* with a nil result and issues no remote call.
C20_EmptyTokenFailsBeforeAnyCall ==
    (op \in {"Get", "Append", "Set", "Delete"} /\ apiToken = "" /\ ppc # "start") =>
        /\ out.done
        /\ out.err = <<"tokenRequired">>
        /\ out.isNil
        /\ out.records = <<>>
        /\ calls = <<>>

C20_Witness ==
    /\ op = "Delete"
    /\ apiToken = ""
    /\ client = "client"
    /\ records # <<>>
    /\ out.done
    /\ out.err = <<"tokenRequired">>
    /\ calls = <<>>

----------------------------------------------------------------------------
(* C21: every remote call issued by GetRecords, AppendRecords, SetRecords  *)
(* or DeleteRecords, the list-records call of the List sub-step of Set and *)
(* Delete included, carries as its domain the caller's zone with exactly   *)
(* one trailing "." removed if present, and the zone unchanged otherwise.  *)

\* The caller's zone with exactly one trailing "." removed if present.
OneDotRemoved(z) ==
    IF Len(z) > 0 /\ z[Len(z)] = Dot THEN SubSeq(z, 1, Len(z) - 1) ELSE z

C21_CallsCarryNormalizedZone ==
    \A i \in DOMAIN calls : calls[i].req.Domain = OneDotRemoved(zoneArg)

----------------------------------------------------------------------------
(* C22: the reconciliation key of a desired record without an identity     *)
(* token is derived from its zone-relative name and its type.              *)

\* The record's name is given in absolute form: "test.example.com.".
AbsoluteForm(r) == HasSuffix(RRName(r), <<Dot>> \o ZoneName \o <<Dot>>)

\* The call acts on the remote record the operation correlated with r.
ActsOnMatchOf(c, r) ==
    /\ c.method = (IF op = "Set" THEN "edit-record" ELSE "remove-record")
    /\ c.req.ID \in MatchedTokens(r)

\* C22: a desired record without a token whose name is given in absolute
\* form is correlated by SetRecords and DeleteRecords with the listed record
\* of the same zone-relative name and type: SetRecords edits that record and
\* DeleteRecords removes it.  (Asked of an operation on the zone example.com
\* that returned without error.)  The code builds the key from the name as
\* given, so SetRecords adds a second record and DeleteRecords removes none.
C22_AbsoluteNameIsCorrelated ==
    (/\ op \in {"Set", "Delete"}
     /\ OneDotRemoved(zoneArg) = ZoneName
     /\ out.done /\ out.err = NoError) =>
        \A j \in DOMAIN records :
            (/\ ~CarriesToken(records[j])
             /\ AbsoluteForm(records[j])
             /\ MatchedTokens(records[j]) # {}) =>
                \E i \in DOMAIN calls : ActsOnMatchOf(calls[i], records[j])

----------------------------------------------------------------------------
(* C23: a reconciliation-key string is never used as an identity token.    *)

\* The "name|type" strings the operation computes: the keys of the input
\* records and the keys of the listed records.
ComputedKeys ==
    {KeyOf(RRName(records[j]), RRType(records[j])) : j \in DOMAIN records}
        \cup {KeyOf(listing[i].Name, listing[i].Type) : i \in DOMAIN listing}

ContainsSeparator(s) == \E i \in DOMAIN s : s[i] = Bar

\* The calls that carry an id.
IdCalls == {i \in DOMAIN calls : calls[i].method \in {"edit-record", "remove-record"}}

\* C23: no edit-record or remove-record call of SetRecords or DeleteRecords
\* carries as its id a "name|type" key computed during that operation;
\* isRecordID is false of a key of DeleteRecords' lookup exactly when the key
\* contains "|", and the keys DeleteRecords issues a call for are those
\* without one.
C23_KeyNeverUsedAsToken ==
    /\ \A i \in IdCalls : calls[i].req.ID \notin ComputedKeys
    /\ \A k \in DOMAIN recordMap : ~isRecordID(k) <=> ContainsSeparator(k)
    /\ (op = "Delete" /\ out.done /\ out.err = NoError /\ ~ConfigError) =>
          {calls[i].req.ID : i \in RemoveCalls} =
              {k \in DOMAIN recordMap : ~ContainsSeparator(k)}

\* DeleteRecords returned with a key left in its lookup and a token removed.
C23_Witness ==
    /\ op = "Delete"
    /\ out.done
    /\ out.err = NoError
    /\ RemoveCalls # {}
    /\ \E k \in DOMAIN recordMap : ContainsSeparator(k) /\ k \in ComputedKeys

----------------------------------------------------------------------------
(* C24: extractRecordID returns the value under "id" of the record's       *)
(* provider-data map when the record kind has the side-channel and it is a *)
(* string-keyed string map with that key, and "" in every other case.      *)

\* The record kinds with a ProviderData field (types.go:110-210 sets it on
\* each of them when decoding).
HasSideChannel(r) == r.kind \in {"Address", "CNAME", "TXT", "MX", "SRV", "ServiceBinding"}

\* What the claim has extractRecordID return.
StoredID(r) == IF HasSideChannel(r) /\ r.pd.shape = "map" THEN r.pd.id ELSE EmptyStr

\* The operation has partitioned its input by extractRecordID.
Partitioned ==
    \/ op = "Set" /\ ppc \in {"list", "withIDs", "withoutIDs"}
    \/ op = "Delete" /\ ppc = "deleteList"

\* Where the partition put the record when extractRecordID gave id for it.
FiledUnder(r, id) ==
    IF op = "Set"
    THEN IF id # EmptyStr
         THEN id \in DOMAIN recordsByKey
         ELSE \E i \in DOMAIN recordsWithoutIDs : recordsWithoutIDs[i] = r
    ELSE IF id # EmptyStr
         THEN id \in DOMAIN recordMap
         ELSE KeyOf(RRName(r), RRType(r)) \in DOMAIN recordMap

\* C24: SetRecords and DeleteRecords file every input record under the id
\* the claim has extractRecordID return for it.  The code returns "" for a
\* ServiceBinding whose provider-data map holds an id.
C24_ExtractsStoredID ==
    Partitioned =>
        \A j \in DOMAIN records :
            /\ extractRecordID(records[j]) = StoredID(records[j])
            /\ FiledUnder(records[j], StoredID(records[j]))

----------------------------------------------------------------------------
(* C25: every error returned by GetRecords, AppendRecords, SetRecords or   *)
(* DeleteRecords states which phase failed.                                *)

\* The phase an error message names: "failed to list records" and "failed to
\* get existing records" the listing, "failed to convert ..." the
\* converting, "failed to add / update / delete record" the remote call.
PhaseOf(e) ==
    CASE ErrKind(e) \in {"list", "getExisting"} -> "listing"
      [] ErrKind(e) \in {"convert", "convertResponse"} -> "converting"
      [] ErrKind(e) \in CallErrors -> "call"
      [] OTHER -> "none"

\* "missing ID for existing record"
ConsistencyError == out.err = <<"missingID">>

LastMethod == IF calls = <<>> THEN "none" ELSE calls[Len(calls)].method

\* C25 as stated: every error an operation returns states the phase that
\* failed, the errors returned on context cancellation included.  (The
\* configuration and consistency errors, which say what is missing, are
\* taken to conform.)  The context check returns ctx.Err() as it is.
C25_EveryErrorStatesPhase ==
    (out.done /\ out.err # NoError /\ ~ConfigError /\ ~ConsistencyError) =>
        PhaseOf(out.err) # "none"

\* C25: an error returned by one of the four operations is a configuration
\* error returned before any call, the consistency error of SetRecords, the
\* context's own error returned unwrapped by the check that follows an
\* accumulated result of SetRecords or DeleteRecords, or an error naming the
\* phase that failed: the listing when the list-records call or the decoding
\* of its answer failed, the converting when a record or a response could
\* not be converted, the add, update or delete when that call failed.
C25_ErrorsStatePhaseOrContext ==
    (out.done /\ out.err # NoError) =>
        CASE ConfigError -> calls = <<>>
          [] ConsistencyError -> op = "Set" /\ LastMethod # "none"
          [] ErrKind(out.err) = "ctx" ->
                /\ op \in {"Set", "Delete"}
                /\ out.err = <<"ctx", pctx.err>>
                /\ pctx.err # ""
                /\ LastMethod \in {"edit-record", "add-record", "remove-record"}
                /\ out.records # <<>>
          [] ErrKind(out.err) = "list" -> op = "Get" /\ LastMethod = "list-records"
          [] ErrKind(out.err) = "getExisting" ->
                /\ op \in {"Set", "Delete"}
                /\ LastMethod = "list-records"
                /\ PhaseOf(out.err[2]) \in {"listing", "converting"}
          [] ErrKind(out.err) = "convert" ->
                \/ op = "Get" /\ LastMethod = "list-records" /\ Undecodables # {}
                \/ /\ op \in {"Append", "Set"}
                   /\ \E j \in DOMAIN records :
                         libdnsRecordToNjalla(records[j], zone).err # NoError
          [] ErrKind(out.err) = "convertResponse" ->
                op \in {"Append", "Set"} /\ LastMethod \in {"add-record", "edit-record"}
          [] ErrKind(out.err) = "add" ->
                op \in {"Append", "Set"} /\ LastMethod = "add-record"
          [] ErrKind(out.err) \in {"update", "updateRecord"} ->
                op = "Set" /\ LastMethod = "edit-record"
          [] ErrKind(out.err) = "deleteRecord" ->
                op = "Delete" /\ LastMethod = "remove-record"
          [] OTHER -> FALSE

\* DeleteRecords returned the deadline's error after a removal.
C25_Witness ==
    /\ op = "Delete"
    /\ out.done
    /\ out.err = <<"ctx", "deadline">>
    /\ LastMethod = "remove-record"
    /\ out.records # <<>>

----------------------------------------------------------------------------
(* C26: the deadlines SetRecords and DeleteRecords run under.              *)

\* The step enters the body of the operation: the checks of the token and
\* of the client have passed.
Begins == ppc = "start" /\ ppc' # "start" /\ ~out'.done

\* The seconds the claim allows between the call and its deadline.
AllowedSeconds(c) == IF c.method = "list-records" THEN 20 ELSE 10

\* What C26 asks of one step of SetRecords or DeleteRecords.
DeadlinesDerivedStep ==
    /\ op \in {"Set", "Delete"}
    /\ Begins =>
          /\ pctx'.hasDeadline
          /\ pctx'.deadline = (IF pctx.hasDeadline THEN pctx.deadline ELSE now + 60)
    /\ ppc # "start" =>
          /\ pctx'.hasDeadline = pctx.hasDeadline
          /\ pctx'.deadline = pctx.deadline
    /\ \A i \in DOMAIN calls' :
          /\ calls'[i].hasDeadline
          /\ calls'[i].deadline <= calls'[i].at + AllowedSeconds(calls'[i])
          /\ calls'[i].deadline <= pctx'.deadline

\* C26: in SetRecords and DeleteRecords the operation's context gets a
\* deadline 60 seconds away when the caller's has none and keeps the
\* caller's deadline otherwise, and keeps it from then on; the list-records
\* call runs under a deadline at most 20 seconds away, every per-record call
\* under a deadline at most 10 seconds away, and none of these deadlines is
\* later than the operation's.
C26_DeadlinesDerived ==
    [][DeadlinesDerivedStep]_vars

\* One operation, some time into it, has issued a per-record call whose
\* deadline is its own timeout away and another that the caller's deadline
\* cuts short, as it does the list-records call.
C26_Witness ==
    /\ op = "Set"
    /\ out.done
    /\ \E i, j, k \in DOMAIN calls :
          /\ calls[i].method = "list-records"
          /\ calls[i].deadline = pctx.deadline
          /\ calls[i].deadline < calls[i].at + 20
          /\ calls[j].method = "edit-record"
          /\ calls[j].deadline = calls[j].at + 10
          /\ calls[j].deadline < pctx.deadline
          /\ calls[k].method \in {"edit-record", "add-record"}
          /\ calls[k].at > 0
          /\ calls[k].deadline = pctx.deadline
          /\ calls[k].deadline < calls[k].at + 10

----------------------------------------------------------------------------
(* C27: an Address record encoded and decoded again *)

\* The zone-relative name that a given name stands for.
ZoneRelativeOf(name) == (CHOOSE p \in NamePairs : p[1] = name)[2]

\* A duration with its fraction of a second dropped.
WholeSeconds(t) == (t \div TicksPerSecond) * TicksPerSecond

\* The last conversion of an Address record has been applied.
AddressConverted ==
    /\ cvt.stage \in {"encodeFailed", "decoded", "decodeFailed"}
    /\ cvt.origin = "lib"
    /\ cvt.rec.kind = "Address"

\* C27: an Address record converted to the remote representation and back,
\* with the zone as the operations pass it, comes back as an Address record
\* with the same type, the same IP address and the same stored remote id;
\* its TTL comes back cut to whole seconds and its name comes back in
\* zone-relative form.
C27_AddressRoundTrip ==
    AddressConverted =>
        /\ cvt.stage = "decoded"
        /\ cvt.back.kind = "Address"
        /\ RRType(cvt.back) = RRType(cvt.rec)
        /\ cvt.back.data = cvt.rec.data
        /\ StoredID(cvt.back) = StoredID(cvt.rec)
        /\ cvt.back.ttl = WholeSeconds(cvt.rec.ttl)
        /\ cvt.back.name = ZoneRelativeOf(cvt.rec.name)

\* An IPv6 Address record under an absolute name, with a TTL that is not a
\* whole number of seconds and a stored remote id, has made the round trip.
C27_Witness ==
    /\ AddressConverted
    /\ cvt.stage = "decoded"
    /\ Is6(cvt.rec.data)
    /\ cvt.rec.name = <<"test", Dot>> \o ZoneName \o <<Dot>>
    /\ cvt.rec.ttl # WholeSeconds(cvt.rec.ttl)
    /\ StoredID(cvt.rec) = <<"id1">>
    /\ cvt.back.name = <<"test">>

----------------------------------------------------------------------------
(* C28: which conversions fail *)

\* The record kinds libdnsRecordToNjalla has a case of its own for, and the
\* generic fallback kind.
SupportedKinds == {"Address", "CNAME", "TXT", "MX", "SRV", "ServiceBinding"}

FallbackKind == "RR"

\* The text of the remote record parses as an IP address.
ParsableContent == cvt.nj.Content \in ValidIPs

\* njallaRecordToLibdns has been applied to a remote record.
RemoteDecoded ==
    /\ cvt.origin = "remote"
    /\ cvt.stage \in {"decoded", "decodeFailed"}

\* libdnsRecordToNjalla has been applied to a record.
RecordEncoded ==
    /\ cvt.origin = "lib"
    /\ cvt.stage \in {"encoded", "encodeFailed"}

\* C28: decoding a remote A or AAAA record whose content does not parse as
\* an IP address fails with an error that names the record's type; decoding
\* a remote record of any other type never fails; encoding succeeds for
\* every supported kind and for the generic RR kind, and fails with the
\* "unsupported record type" error for every other kind.
C28_ConversionFailures ==
    /\ (RemoteDecoded /\ cvt.nj.Type \in {"A", "AAAA"} /\ ~ParsableContent) =>
           /\ cvt.stage = "decodeFailed"
           /\ cvt.decErr = <<"invalidIP", cvt.nj.Type>>
    /\ (RemoteDecoded /\ cvt.nj.Type \notin {"A", "AAAA"}) =>
           /\ cvt.stage = "decoded"
           /\ cvt.decErr = NoError
    /\ (RecordEncoded /\ cvt.rec.kind \in SupportedKinds \cup {FallbackKind}) =>
           /\ cvt.stage = "encoded"
           /\ cvt.encErr = NoError
    /\ (RecordEncoded /\ cvt.rec.kind \notin SupportedKinds \cup {FallbackKind}) =>
           /\ cvt.stage = "encodeFailed"
           /\ cvt.encErr = <<"unsupported", cvt.rec.kind>>

\* Decoding an AAAA record with unparsable content has failed.
C28_Witness ==
    /\ RemoteDecoded
    /\ cvt.nj.Type = "AAAA"
    /\ cvt.nj.Content = <<"invalid-ip">>
    /\ cvt.stage = "decodeFailed"

----------------------------------------------------------------------------
(* C29: concurrent getClient calls *)

\* The goroutines whose getClient has returned.
Returned == {g \in Goroutines : gor.pc[g] = "done"}

\* C29: on a Provider with a non-empty APIToken, every getClient call that
\* has returned, however the calls interleave, has returned the same client,
\* a client and not nil, and newClient has run at most once.
C29_OneClientForAllCallers ==
    apiToken # "" =>
        /\ gor.built <= 1
        /\ \A g \in Returned : gor.got[g] # "nil"
        /\ \A g, h \in Returned : gor.got[g] = gor.got[h]

\* Every goroutine has returned from getClient, each with the one client
\* that was constructed.
C29_Witness ==
    /\ apiToken # ""
    /\ Returned = Goroutines
    /\ gor.built = 1
    /\ \A g \in Goroutines : gor.got[g] = client

----------------------------------------------------------------------------
(* C30: concurrent calls on one client *)

\* What a call returns for its last attempt, when that attempt was not a
\* retryable failure.
TerminalReturn(o, nilResult) ==
    IF o[2] >= 400 THEN <<"http", o[2]>>
    ELSE IF o[3][1] = "apierr" THEN <<"api", o[3][2], o[3][3]>>
    ELSE IF o[3][1] = "badresult" /\ ~nilResult THEN <<"unmarshalResult">>
    ELSE NoError

\* The call with parameters and locals l has returned what its own
\* parameters, its own ctx and the outcomes of its own attempts determine
\* under the policy: the marshal error before any attempt; or the context's
\* error out of a backoff wait that followed retryable failures only; or the
\* result of its first attempt that was not a retryable failure; or the
\* retries-exhausted error around its last failure after MaxRetries + 1
\* retryable failures.
OwnOutcome(l) ==
    /\ l.sent = Len(l.hist)
    /\ IF ~l.marshalOK
       THEN l.hist = <<>> /\ l.ret = <<"marshal">>
       ELSE /\ l.hist # <<>>
            /\ AllRetryable(Front(l.hist))
            /\ Len(l.hist) <= cfg.MaxRetries + 1
            /\ IF ~RetryableFailure(l.hist[Len(l.hist)])
               THEN l.ret = TerminalReturn(l.hist[Len(l.hist)], l.resultNil)
               ELSE \/ /\ Len(l.hist) = cfg.MaxRetries + 1
                       /\ l.ret = <<"maxRetries", FailureOf(l.hist[Len(l.hist)])>>
                    \/ /\ Len(l.hist) <= cfg.MaxRetries
                       /\ l.ctxErr # ""
                       /\ l.ret = <<"ctxBackoff", l.ctxErr>>

BothCalls == {Locals, other}

EachCallOnItsOwn == \A l \in BothCalls : l.pc = "done" => OwnOutcome(l)

\* No step writes the client: token, timeout and retry policy stay as
\* newClient set them.
ClientUntouched == cl' = cl /\ cfg' = cfg

\* C30: no step of a call writes the client's token, timeout or retry
\* policy, and in every interleaving of two calls on one client each call
\* makes the attempts and returns the outcome that the responses to its own
\* attempts and its own context determine.
C30_CallsShareNoWrittenState == []EachCallOnItsOwn /\ [][ClientUntouched]_vars

\* Both calls have returned after their steps were interleaved: one
\* exhausted its retries while the other succeeded at its first attempt.
C30_Witness ==
    /\ pc = "done" /\ other.pc = "done"
    /\ cfg.MaxRetries = 1
    /\ \E l \in BothCalls : Len(l.hist) = 2 /\ l.ret = <<"maxRetries", <<"request">>>>
    /\ \E l \in BothCalls : l.ret = NoError /\ Len(l.hist) = 1

----------------------------------------------------------------------------
(* C31: one List per SetRecords, and records under one key resolve alike *)

\* The input records at positions j and k carry no token and have the same
\* name and type.
SameKeyPair(j, k) ==
    /\ j # k
    /\ ~CarriesToken(records[j]) /\ ~CarriesToken(records[k])
    /\ RRName(records[j]) = RRName(records[k])
    /\ RRType(records[j]) = RRType(records[k])

\* The calls issued for the input record at position j of a batch of
\* records without tokens: the j-th call after the List.
CallFor(j) == calls[j + 1]

\* C31: one SetRecords issues at most one list-records call, and when it
\* returns without error every two input records without a token that have
\* the same name and type were resolved alike from that one listing: when
\* the listing holds a record under their name and type, both were written
\* by edit-record under one and the same listed token, and when it holds
\* none, both were written by add-record, the second one too although the
\* first has created a record under that name and type by then.
C31_SameKeyResolvesAlike ==
    op = "Set" =>
        /\ CountCalls(calls, "list-records") <= 1
        /\ (out.done /\ out.err = NoError /\ Len(records) = Len(recordsWithoutIDs)) =>
              \A j, k \in DOMAIN records :
                  SameKeyPair(j, k) =>
                      /\ CallFor(j).rec = records[j]
                      /\ CallFor(k).rec = records[k]
                      /\ CallFor(j).method = CallFor(k).method
                      /\ IF ListedTokens(records[j]) # {}
                         THEN /\ CallFor(j).method = "edit-record"
                              /\ CallFor(j).req.ID \in ListedTokens(records[j])
                              /\ CallFor(k).req.ID = CallFor(j).req.ID
                         ELSE CallFor(j).method = "add-record"

\* SetRecords returned without error for two records without tokens under
\* one name and type that the listing holds twice: one list-records call,
\* then two edit-record calls under one token.
C31_Witness ==
    /\ op = "Set" /\ out.done /\ out.err = NoError
    /\ Len(records) = 2 /\ SameKeyPair(1, 2)
    /\ Cardinality(ListedTokens(records[1])) = 2
    /\ CountCalls(calls, "list-records") = 1
    /\ CallFor(1).method = "edit-record"
    /\ CallFor(2).req.ID = CallFor(1).req.ID

\* SetRecords returned without error for two records without tokens under
\* one name and type that the listing does not hold: two add-record calls.
C31_WitnessAdded ==
    /\ op = "Set" /\ out.done /\ out.err = NoError
    /\ Len(records) = 2 /\ SameKeyPair(1, 2)
    /\ ListedTokens(records[1]) = {}
    /\ CountCalls(calls, "add-record") = 2

----------------------------------------------------------------------------
(* C32: records with a token are written first, the others in input order *)

\* The positions in calls of the edit-record and add-record calls.
Writes == {i \in DOMAIN calls : calls[i].method \in {"edit-record", "add-record"}}

Lacks(r) == ~CarriesToken(r)

\* The records the calls of s were issued for, in the order of the calls.
RECURSIVE RecsOf(_)
RecsOf(s) == IF s = <<>> THEN <<>> ELSE <<s[1].rec>> \o RecsOf(Tail(s))

IsPrefix(s, t) == Len(s) <= Len(t) /\ s = SubSeq(t, 1, Len(s))

WrittenLacking(c) == c.method \in {"edit-record", "add-record"} /\ Lacks(c.rec)

\* C32: every call SetRecords issues for an input record that carries an
\* identity token is an edit-record call and comes before every edit-record
\* or add-record call for an input record that carries none, and the calls
\* for the records that carry none follow the input order.  The code files
\* a ServiceBinding that carries a token with the records that carry none.
C32_TokenRecordsFirst ==
    op = "Set" =>
        /\ \A i \in Writes :
              CarriesToken(calls[i].rec) =>
                  /\ calls[i].method = "edit-record"
                  /\ \A j \in Writes : Lacks(calls[j].rec) => i < j
        /\ IsPrefix(RecsOf(SelectSeq(calls, WrittenLacking)),
                    SelectSeq(records, Lacks))

----------------------------------------------------------------------------
(* C33: one returned record per input record *)

\* C33: when SetRecords returns a nil error, the slice it returns has as
\* many records as the input batch, batches in which several records carry
\* one identity token included.  The code keys the records that carry a
\* token by the token, so of several under one token only the last is
\* written and returned.
C33_OneResultPerInput ==
    (op = "Set" /\ out.done /\ out.err = NoError) =>
        Len(out.records) = Len(records)

----------------------------------------------------------------------------
(* C34: a failed List ends SetRecords and DeleteRecords before any write *)

ListIssued == CountCalls(calls, "list-records") > 0

\* No add-record, edit-record or remove-record call has been issued.
NothingWritten == \A i \in DOMAIN calls : calls[i].method = "list-records"

\* The remote's answer to list-records does not decode, so a List that was
\* issued has failed whatever else happened.
ListCannotSucceed == DecodeAll(listing).err # NoError

\* C34: when the List sub-step of SetRecords or DeleteRecords fails, the
\* operation returns an error, a nil slice, and has issued no add-record,
\* edit-record or remove-record call, whether or not input records carry an
\* identity token.
C34_FailedListWritesNothing ==
    op \in {"Set", "Delete"} =>
        /\ ErrKind(out.err) = "getExisting" =>
              /\ out.done /\ out.isNil
              /\ ListIssued
              /\ NothingWritten
        /\ (ListIssued /\ ListCannotSucceed) =>
              /\ out.done
              /\ ErrKind(out.err) = "getExisting"
              /\ NothingWritten

\* The List of a SetRecords failed for a batch of one record that carries
\* an identity token and one that carries none.
C34_Witness ==
    /\ op = "Set"
    /\ out.done /\ ErrKind(out.err) = "getExisting"
    /\ Len(records) = 2
    /\ extractRecordID(records[1]) # EmptyStr
    /\ extractRecordID(records[2]) = EmptyStr
    /\ ListCannotSucceed
    /\ Len(calls) = 1

C34_WitnessDelete ==
    /\ op = "Delete"
    /\ out.done /\ out.err = <<"getExisting", <<"list">>>>
    /\ \E j \in DOMAIN records : extractRecordID(records[j]) # EmptyStr
    /\ Len(calls) = 1

----------------------------------------------------------------------------
(* C35: listed records with tokens never lead to the missing-ID error *)

\* Every record the remote lists carries a non-empty identity token.
AllListedCarryToken == \A i \in DOMAIN listing : listing[i].ID # EmptyStr

\* C35: when every record returned by the List step carries a non-empty
\* identity token, SetRecords does not fail with the "missing ID for
\* existing record" error, whatever the type of the matched record.  The
\* code decodes a listed record of a type without a case of its own into
\* libdns.RR, which keeps no token, and extractRecordID reads none from a
\* ServiceBinding either.
C35_NoMissingIDWhenListedHaveTokens ==
    (op = "Set" /\ AllListedCarryToken) => out.err # <<"missingID">>

----------------------------------------------------------------------------
(* C36: SetRecords and DeleteRecords resolve one record to one token *)

\* The listed records as both operations get them from GetRecords.
ListedRecords == DecodeAll(listing).recs

\* The token SetRecords resolves the record to under this listing
\* (provider.go:201-205, 265 and 277).
SetResolves(r) ==
    IF Probe(r) \in DOMAIN ExistingByKey(ListedRecords)
    THEN {extractRecordID(ExistingByKey(ListedRecords)[Probe(r)])}
    ELSE {}

\* The token DeleteRecords resolves the record to under this listing
\* (provider.go:395-396 and 413-424).
DeleteResolves(r) ==
    {id \in DOMAIN MatchExisting(RecordMap(<<r>>), ListedRecords) : isRecordID(id)}

\* The operation was given one record that carries no token.
OneRecordWithoutToken ==
    /\ Len(records) = 1
    /\ extractRecordID(records[1]) = EmptyStr
    /\ DecodeAll(listing).err = NoError

\* C36: given one List response and one desired record without a token,
\* SetRecords and DeleteRecords resolve the record to the same listed
\* token, also when the listing holds several records under the record's
\* name and type: the token of SetRecords' edit-record call is the one
\* DeleteRecords would remove, and the token of DeleteRecords'
\* remove-record call is the one SetRecords would edit.  The code has
\* SetRecords keep the last listed record under a key and DeleteRecords
\* the first.
C36_SetAndDeleteResolveAlike ==
    OneRecordWithoutToken =>
        \A i \in DOMAIN calls :
            /\ (op = "Set" /\ calls[i].method = "edit-record") =>
                  calls[i].req.ID \in DeleteResolves(records[1])
            /\ (op = "Delete" /\ calls[i].method = "remove-record") =>
                  calls[i].req.ID \in SetResolves(records[1])

----------------------------------------------------------------------------
(* C37: DeleteRecords removes no token twice *)

\* C37: within one DeleteRecords no identity token is the argument of more
\* than one remove-record call, whatever the batch and the listing, also
\* when a record without a token resolves to a token that another input
\* record carries.
C37_NoTokenRemovedTwice ==
    op = "Delete" =>
        \A i, j \in RemoveCalls : calls[i].req.ID = calls[j].req.ID => i = j

\* DeleteRecords has returned for a record without a token and a record
\* with the token id1, the listing holding the first one's match under id1:
\* one remove-record call, with id1.
C37_Witness ==
    /\ op = "Delete" /\ out.done /\ out.err = NoError
    /\ Len(records) = 2
    /\ ~CarriesToken(records[1])
    /\ CarriesToken(records[2])
    /\ ListedTokens(records[1]) = {records[2].pd.id}
    /\ CountCalls(calls, "remove-record") = 1
    /\ \A i \in RemoveCalls : calls[i].req.ID = records[2].pd.id

----------------------------------------------------------------------------
(* C38: the returned slice counts the calls that succeeded *)

\* The add-record, edit-record and remove-record calls of the operation.
ChangeCalls == {i \in DOMAIN calls : calls[i].method # "list-records"}

\* Every such call but a last one that returned an error has succeeded: an
\* error of client.call ends the operation (provider.go:127-129, 237-239,
\* 298-300, 325-327 and 444-448).
Completed == {i \in ChangeCalls : i < Len(calls) \/ ErrKind(out.err) \notin CallErrors}

\* C38: when AppendRecords, SetRecords or DeleteRecords has returned, with
\* or without an error, the returned slice holds as many records as
\* add-record, edit-record and remove-record calls of the operation have
\* succeeded.
C38_SliceCountsCompletedCalls ==
    (op \in {"Append", "Set", "Delete"} /\ out.done) =>
        Len(out.records) = Cardinality(Completed)

----------------------------------------------------------------------------
(* C39: every call and every operation returns *)

\* The call or the operation under way has returned.
HasReturned == IF op = "none" THEN pc = "done" ELSE out.done

\* C39: every client.call, and every GetRecords, AppendRecords, SetRecords
\* and DeleteRecords over a finite batch, eventually returns, with success
\* or with an error, when every delivery attempt and every backoff timer
\* completes: no sequence of attempt outcomes keeps the retry loop or the
\* loop over the records running for ever.
C39_EveryCallReturns == <>HasReturned

\* A client.call has returned after MaxRetriesBound + 1 failed attempts and
\* a backoff wait before each retry.
C39_Witness ==
    /\ op = "none"
    /\ pc = "done"
    /\ cfg.MaxRetries = MaxRetriesBound
    /\ sent = MaxRetriesBound + 1
    /\ ctxErr = ""
    /\ Len(ret) = 2
    /\ ret[1] = "maxRetries"

\* An operation has returned without error after one call for each of
\* MaxBatch records.
C39_WitnessBatch ==
    /\ op \in {"Append", "Set", "Delete"}
    /\ out.done
    /\ out.err = NoError
    /\ Len(records) = MaxBatch
    /\ Len(out.records) = MaxBatch

====
